---- MODULE Spec2Model ----
(***************************************************************************)
(* Model of the PM High Council Quad-Swarm engine: the LangGraph fan-out / *)
(* fan-in graph of backend/agent_graph.py (supervisor -> four swarms ->     *)
(* synthesizer), the swarm agent of backend/agents/base_agent.py and the    *)
(* two FastAPI endpoints of backend/main.py that run it in blocking and in  *)
(* streaming mode.                                                          *)
(***************************************************************************)
EXTENDS Integers, Sequences, FiniteSets, TLC

\* ------------------------------------------------------------------------
\* Bounds of the model
\* ------------------------------------------------------------------------

\* longest problem statement (in characters) a request carries
MaxProblemLen == 1

\* ------------------------------------------------------------------------
\* Configuration (config.py, agent_graph.py)
\* ------------------------------------------------------------------------

\* agent_graph.py:42
SWARM_NAMES == <<"founder_swarm", "product_swarm", "growth_swarm", "engineering_swarm">>

SwarmSet == {SWARM_NAMES[i] : i \in 1..Len(SWARM_NAMES)}

\* config.py:29-130, the display_name entries of SWARMS
SWARMS ==
  [founder_swarm     |-> [display_name |-> "The Visionary"],
   product_swarm     |-> [display_name |-> "The Scaler"],
   growth_swarm      |-> [display_name |-> "The Scientist"],
   engineering_swarm |-> [display_name |-> "The Architect"]]

\* f"{swarm_name}_query" and f"{swarm_name}_response" (agent_graph.py:98-99)
query_key(b) == b \o "_query"

response_key(b) == b \o "_response"

QueryKeys == {query_key(b) : b \in SwarmSet}

ResponseKeys == {response_key(b) : b \in SwarmSet}

\* ------------------------------------------------------------------------
\* Python values
\* ------------------------------------------------------------------------

PyStr(s) == [t |-> "str", v |-> s]

PyNone == [t |-> "NoneType", v |-> ""]

PyNum(s) == [t |-> "int", v |-> s]

\* the characters a problem statement is made of: a blank and a letter
Chars == {" ", "c"}

IsSpace(c) == c \in {" ", "\n", "\t"}

RECURSIVE lstrip(_)
lstrip(cs) ==
  IF cs # <<>> /\ IsSpace(Head(cs)) THEN lstrip(Tail(cs)) ELSE cs

RECURSIVE rstrip(_)
rstrip(cs) ==
  IF cs # <<>> /\ IsSpace(cs[Len(cs)]) THEN rstrip(SubSeq(cs, 1, Len(cs) - 1)) ELSE cs

\* the problem tested as it is, without strip()
strip_nothing(cs) == cs

\* str.strip() on a sequence of characters
strip(cs) == rstrip(lstrip(cs))

\* the Python string made of the characters cs
RECURSIVE Text(_)
Text(cs) ==
  IF cs = <<>> THEN ""
  ELSE IF Len(cs) = 1 THEN cs[1]
  ELSE LET half == Len(cs) \div 2
       IN Text(SubSeq(cs, 1, half)) \o Text(SubSeq(cs, half + 1, Len(cs)))

RECURSIVE SeqsUpTo(_)
SeqsUpTo(n) ==
  IF n = 0 THEN {<<>>}
  ELSE LET shorter == SeqsUpTo(n - 1)
       IN shorter \cup {Append(s, c) : s \in {x \in shorter : Len(x) = n - 1}, c \in Chars}

\* the problem statements a request may carry
Problems == SeqsUpTo(MaxProblemLen)

\* ------------------------------------------------------------------------
\* json.loads on the supervisor's completion text (agent_graph.py:68)
\* A completion text is a sequence of lexical tokens.
\* ------------------------------------------------------------------------

Punct(c) == [k |-> "punct", v |-> c]

StrTok(s) == [k |-> "str", v |-> s]

NumTok(s) == [k |-> "num", v |-> s]

NullTok == [k |-> "null", v |-> "null"]

\* text that is not JSON at all (prose around the object)
JunkTok(s) == [k |-> "junk", v |-> s]

IsScalarTok(tok) == tok.k \in {"str", "num", "null"}

ScalarValue(tok) ==
  IF tok.k = "str" THEN PyStr(tok.v)
  ELSE IF tok.k = "num" THEN PyNum(tok.v)
  ELSE PyNone

JSONDecodeError == [t |-> "JSONDecodeError"]

PyDict(d) == [t |-> "dict", d |-> d]

PyList(items) == [t |-> "list", items |-> items]

\* the members of an object, from token i on; a repeated key keeps its last value
RECURSIVE ParseMembers(_, _, _)
ParseMembers(toks, i, acc) ==
  IF i + 3 > Len(toks) THEN JSONDecodeError
  ELSE IF ~(toks[i].k = "str" /\ toks[i + 1] = Punct(":") /\ IsScalarTok(toks[i + 2]))
    THEN JSONDecodeError
  ELSE LET key == toks[i].v
           acc2 == [x \in (DOMAIN acc) \cup {key} |->
                      IF x = key THEN ScalarValue(toks[i + 2]) ELSE acc[x]]
       IN IF toks[i + 3] = Punct("}")
            THEN (IF i + 3 = Len(toks) THEN PyDict(acc2) ELSE JSONDecodeError)
          ELSE IF toks[i + 3] = Punct(",")
            THEN ParseMembers(toks, i + 4, acc2)
          ELSE JSONDecodeError

\* the items of an array, from token i on
RECURSIVE ParseItems(_, _, _)
ParseItems(toks, i, acc) ==
  IF i + 1 > Len(toks) THEN JSONDecodeError
  ELSE IF ~IsScalarTok(toks[i]) THEN JSONDecodeError
  ELSE LET acc2 == Append(acc, ScalarValue(toks[i]))
       IN IF toks[i + 1] = Punct("]")
            THEN (IF i + 1 = Len(toks) THEN PyList(acc2) ELSE JSONDecodeError)
          ELSE IF toks[i + 1] = Punct(",")
            THEN ParseItems(toks, i + 2, acc2)
          ELSE JSONDecodeError

json_loads(toks) ==
  IF toks = <<>> THEN JSONDecodeError
  ELSE IF IsScalarTok(toks[1])
    THEN (IF Len(toks) = 1 THEN ScalarValue(toks[1]) ELSE JSONDecodeError)
  ELSE IF toks[1] = Punct("{")
    THEN (IF Len(toks) = 2 /\ toks[2] = Punct("}") THEN PyDict(<<>>)
          ELSE ParseMembers(toks, 2, <<>>))
  ELSE IF toks[1] = Punct("[")
    THEN (IF Len(toks) = 2 /\ toks[2] = Punct("]") THEN PyList(<<>>)
          ELSE ParseItems(toks, 2, <<>>))
  ELSE JSONDecodeError

\* ------------------------------------------------------------------------
\* supervisor_node (agent_graph.py:53-83)
\* ------------------------------------------------------------------------

\* the framing sentences of the fallback queries (agent_graph.py:72-75)
Framing ==
  [founder_swarm     |-> "From a founder's perspective on vision and culture, how would you approach: ",
   product_swarm     |-> "What product strategy and discovery process would you recommend for: ",
   growth_swarm      |-> "What growth systems, metrics and loops should we focus on for: ",
   engineering_swarm |-> "What are the technical considerations and feasibility concerns for: "]

\* the except branch: one framed query per swarm (agent_graph.py:71-76)
FallbackQueries(problem) ==
  PyDict([k \in QueryKeys |->
            PyStr(Framing[CHOOSE b \in SwarmSet : query_key(b) = k] \o Text(problem))])

\* queries.get(key, "") (agent_graph.py:79-82)
dict_get(queries, key, default) ==
  IF key \in DOMAIN queries.d THEN queries.d[key] ELSE default

Returned(update) == [raised |-> FALSE, update |-> update, error |-> ""]

Raised(error) == [raised |-> TRUE, update |-> <<>>, error |-> error]

\* the outcome of a completion call: the text it returned, or an exception
Completed(text) == [raised |-> FALSE, text |-> text]

\* the exception of a completion call that fails
CompletionError == "APIConnectionError: Connection error."

\* supervisor_node without the except branch: the decode error leaves the node
supervisor_node_no_except(state, completion) ==
  IF completion.raised THEN Raised(CompletionError)
  ELSE LET queries == json_loads(completion.text)
       IN IF queries = JSONDecodeError
            THEN Raised("JSONDecodeError: Expecting value")
          ELSE IF queries.t # "dict"
            THEN Raised("AttributeError: '" \o queries.t \o "' object has no attribute 'get'")
          ELSE Returned([k \in QueryKeys |-> dict_get(queries, k, PyStr(""))])

\* completion is the outcome of chain.invoke (agent_graph.py:64)
supervisor_node(state, completion) ==
  IF completion.raised THEN Raised(CompletionError)
  ELSE LET loaded == json_loads(completion.text)
           queries == IF loaded = JSONDecodeError THEN FallbackQueries(state["problem"])
                      ELSE loaded
       IN IF queries.t # "dict"
            THEN Raised("AttributeError: '" \o queries.t \o "' object has no attribute 'get'")
          ELSE Returned([k \in QueryKeys |-> dict_get(queries, k, PyStr(""))])

\* ------------------------------------------------------------------------
\* The texts the supervisor's completion call may return
\* ------------------------------------------------------------------------

\* a query the model tailors to swarm b
TailoredQuery(b) == "Tailored query for " \o b

RECURSIVE MembersText(_)
MembersText(bs) ==
  IF bs = <<>> THEN <<>>
  ELSE <<StrTok(query_key(Head(bs))), Punct(":"), StrTok(TailoredQuery(Head(bs)))>>
       \o (IF Tail(bs) = <<>> THEN <<>> ELSE <<Punct(",")>> \o MembersText(Tail(bs)))

\* a JSON object with the query keys of the swarms bs
ObjectText(bs) == <<Punct("{")>> \o MembersText(bs) \o <<Punct("}")>>

FullObject == ObjectText(SWARM_NAMES)

WellFormedTexts ==
  { FullObject,
    ObjectText(Tail(SWARM_NAMES)),
    ObjectText(<<>>),
    <<Punct("{"), StrTok(query_key("product_swarm")), Punct(":"), NullTok, Punct("}")>> }

MalformedTexts ==
  { <<>>,
    <<JunkTok("Here are the queries:")>> \o FullObject,
    SubSeq(FullObject, 1, Len(FullObject) - 1) }

NonMappingTexts ==
  { <<Punct("["), StrTok(TailoredQuery("founder_swarm")), Punct("]")>>,
    <<StrTok(TailoredQuery("founder_swarm"))>>,
    <<NumTok("42")>>,
    <<NullTok>> }

SupervisorTexts == WellFormedTexts \cup MalformedTexts \cup NonMappingTexts

\* ------------------------------------------------------------------------
\* The swarm agent (agents/base_agent.py:67-118)
\* ------------------------------------------------------------------------

\* n_results of collection.query (base_agent.py:83)
NResults == 8

\* the preview budget of a source, doc[:200] (base_agent.py:100)
PreviewLen == 200

LowerCase == <<"a", "b", "c", "d", "e", "f", "g", "h", "i", "j", "k", "l", "m",
               "n", "o", "p", "q", "r", "s", "t", "u", "v", "w", "x", "y", "z">>

UpperCase == <<"A", "B", "C", "D", "E", "F", "G", "H", "I", "J", "K", "L", "M",
               "N", "O", "P", "Q", "R", "S", "T", "U", "V", "W", "X", "Y", "Z">>

upper(c) ==
  IF \E i \in 1..Len(LowerCase) : LowerCase[i] = c
    THEN UpperCase[CHOOSE i \in 1..Len(LowerCase) : LowerCase[i] = c]
  ELSE c

lower(c) ==
  IF \E i \in 1..Len(UpperCase) : UpperCase[i] = c
    THEN LowerCase[CHOOSE i \in 1..Len(UpperCase) : UpperCase[i] = c]
  ELSE c

\* str.capitalize(): first character upper case, the rest lower case
capitalize(word) ==
  [i \in 1..Len(word) |-> IF i = 1 THEN upper(word[i]) ELSE lower(word[i])]

\* str.split(sep): the pieces of cs between the occurrences of sep
\* (piece is what precedes cs in the first piece)
split(cs, sep, piece) ==
  LET at == SelectSeq([i \in 1..Len(cs) |-> i], LAMBDA i : cs[i] = sep)
      from(k) == IF k = 1 THEN 1 ELSE at[k - 1] + 1
      upto(k) == IF k = Len(at) + 1 THEN Len(cs) ELSE at[k] - 1
  IN [k \in 1..(Len(at) + 1) |->
        (IF k = 1 THEN piece ELSE <<>>) \o SubSeq(cs, from(k), upto(k))]

\* sep.join(words) for words that are Python strings
RECURSIVE join(_, _)
join(sep, words) ==
  IF words = <<>> THEN ""
  ELSE IF Len(words) = 1 THEN words[1]
  ELSE words[1] \o sep \o join(sep, Tail(words))

\* " ".join(word.capitalize() for word in speaker_name.split("-")) (base_agent.py:95)
display_speaker(speaker_name) ==
  LET words == split(speaker_name, "-", <<>>)
  IN join(" ", [i \in 1..Len(words) |-> Text(capitalize(words[i]))])

\* meta.get(key, default)
meta_get(meta, key, default) == IF key \in DOMAIN meta THEN meta[key] ELSE default

\* the default speaker name, "Unknown" (base_agent.py:94)
UnknownSpeaker == <<"U", "n", "k", "n", "o", "w", "n">>

\* collection.query(n_results=8, where={"persona": persona_type}) (base_agent.py:81-86):
\* the entries of the index tagged persona_type, at most n_results of them
collection_query(index, persona_type) ==
  LET hits == SelectSeq(index, LAMBDA e : e.persona = persona_type)
  IN SubSeq(hits, 1, IF Len(hits) < NResults THEN Len(hits) ELSE NResults)

\* one retrieved passage as a line of the context (base_agent.py:94-98)
context_part(e) ==
  "[" \o display_speaker(meta_get(e.meta, "speaker_name", UnknownSpeaker))
      \o " - " \o meta_get(e.meta, "timestamp", "N/A") \o "] " \o Text(e.document)

\* the preview cut as soon as the passage reaches the budget
source_of_off_by_one(e) ==
  [text      |-> IF Len(e.document) >= PreviewLen
                   THEN Text(SubSeq(e.document, 1, PreviewLen)) \o "..."
                 ELSE Text(e.document),
   speaker   |-> display_speaker(meta_get(e.meta, "speaker_name", UnknownSpeaker)),
   episode   |-> meta_get(e.meta, "episode_title", "Unknown"),
   timestamp |-> meta_get(e.meta, "timestamp", "N/A")]

\* one retrieved passage as a source (base_agent.py:99-104)
source_of(e) ==
  [text      |-> IF Len(e.document) > PreviewLen
                   THEN Text(SubSeq(e.document, 1, PreviewLen)) \o "..."
                 ELSE Text(e.document),
   speaker   |-> display_speaker(meta_get(e.meta, "speaker_name", UnknownSpeaker)),
   episode   |-> meta_get(e.meta, "episode_title", "Unknown"),
   timestamp |-> meta_get(e.meta, "timestamp", "N/A")]

\* the context without the marker for an empty retrieval
context_of_no_marker(results) ==
  join("\n\n", [i \in 1..Len(results) |-> context_part(results[i])])

\* the context handed to the completion call (base_agent.py:106)
context_of(results) ==
  IF results # <<>>
    THEN join("\n\n", [i \in 1..Len(results) |-> context_part(results[i])])
  ELSE "No relevant context found from this collective."

\* the input of the agent's completion call (base_agent.py:109-112)
agent_call(persona_type, query, index) ==
  [context |-> context_of(collection_query(index, persona_type)), query |-> query]

\* the dict invoke returns (base_agent.py:114-118)
agent_result(persona_type, display_name, index, completion) ==
  LET results == collection_query(index, persona_type)
  IN [response |-> completion,
      sources  |-> [i \in 1..Len(results) |-> source_of(results[i])],
      agent    |-> display_name]

\* the completion the model writes for swarm b
SwarmCompletion(b) == "Advice of " \o b

\* the external calls of invoke, in the order it makes them (base_agent.py:78, 81, 109)
AgentCalls == <<"embed_query", "collection.query", "chain.invoke">>

\* ------------------------------------------------------------------------
\* synthesizer_node (agent_graph.py:109-127)
\* ------------------------------------------------------------------------

\* the literals with one of them naming another swarm's display name
NoResponse_stale ==
  [founder_swarm     |-> "No response from The Visionary",
   product_swarm     |-> "No response from The Scaler",
   growth_swarm      |-> "No response from The Scaler",
   engineering_swarm |-> "No response from The Architect"]

\* the literals of the else branches (agent_graph.py:121-124)
NoResponse ==
  [founder_swarm     |-> "No response from The Visionary",
   product_swarm     |-> "No response from The Scaler",
   growth_swarm      |-> "No response from The Scientist",
   engineering_swarm |-> "No response from The Architect"]

\* state.get(key): None when the key has no value
state_get(state, key) == IF key \in DOMAIN state THEN state[key] ELSE PyNone

\* truth value of a branch result: None and {} are false
truthy(v) == v # PyNone /\ DOMAIN v # {}

\* the mapping handed to chain.invoke (agent_graph.py:120-125)
synthesizer_input(state) ==
  [b \in SwarmSet |->
     IF truthy(state_get(state, response_key(b)))
       THEN state[response_key(b)]["response"]
     ELSE NoResponse[b]]

\* the synthesizer returning the whole state with the synthesis added
synthesizer_node_whole_state(state, completion) ==
  IF completion.raised THEN Raised(CompletionError)
  ELSE Returned([k \in DOMAIN state \cup {"synthesis"} |->
                   IF k = "synthesis" THEN completion.text ELSE state[k]])

\* synthesizer_node swallowing the failure of its completion call
synthesizer_node_swallow(state, completion) ==
  Returned([k \in {"synthesis"} |-> IF completion.raised THEN "" ELSE completion.text])

\* completion is the outcome of chain.invoke (agent_graph.py:120-127)
synthesizer_node(state, completion) ==
  IF completion.raised THEN Raised(CompletionError)
  ELSE Returned([k \in {"synthesis"} |-> completion.text])

\* the texts the synthesizer's completion call may return
SynthTexts == {"Strategic fork: path A", ""}

\* ------------------------------------------------------------------------
\* The graph (agent_graph.py:130-158) and its execution in supersteps
\* ------------------------------------------------------------------------

Nodes == {"supervisor", "synthesizer"} \cup SwarmSet

\* graph.set_entry_point("supervisor") (agent_graph.py:145)
EntryPoint == "supervisor"

END == "__end__"

\* the graph with engineering_swarm wired after founder_swarm instead of
\* after the supervisor
EdgesChained ==
  {<<"supervisor", b>> : b \in SwarmSet \ {"engineering_swarm"}}
    \cup {<<"founder_swarm", "engineering_swarm">>}
    \cup {<<b, "synthesizer">> : b \in SwarmSet}
    \cup {<<"synthesizer", END>>}

\* the graph with the swarms wired one after another
EdgesSequential ==
  {<<"supervisor", SWARM_NAMES[1]>>}
    \cup {<<SWARM_NAMES[i], SWARM_NAMES[i + 1]>> : i \in 1..(Len(SWARM_NAMES) - 1)}
    \cup {<<SWARM_NAMES[Len(SWARM_NAMES)], "synthesizer">>, <<"synthesizer", END>>}

\* the graph whose swarms lead to END, the synthesizer left unwired
EdgesSkipSynth ==
  {<<"supervisor", b>> : b \in SwarmSet}
    \cup {<<b, END>> : b \in SwarmSet}

\* the graph with an extra edge from the supervisor back to itself
EdgesSupervisorLoop ==
  {<<"supervisor", b>> : b \in SwarmSet}
    \cup {<<"supervisor", "supervisor">>}
    \cup {<<b, "synthesizer">> : b \in SwarmSet}
    \cup {<<"synthesizer", END>>}

\* the add_edge calls (agent_graph.py:148-156)
Edges ==
  {<<"supervisor", b>> : b \in SwarmSet}
    \cup {<<b, "synthesizer">> : b \in SwarmSet}
    \cup {<<"synthesizer", END>>}

\* the nodes an edge leads to from one of the nodes that ran in the step
Triggered(ran) == {n \in Nodes : \E m \in ran : <<m, n>> \in Edges}

\* the updates of one step written over the state, in the order of SWARM_NAMES
RECURSIVE ApplyWrites(_, _)
ApplyWrites(st, ws) ==
  IF ws = <<>> THEN st
  ELSE LET u == Head(ws)
       IN ApplyWrites([k \in (DOMAIN st) \cup (DOMAIN u) |->
                         IF k \in DOMAIN u THEN u[k] ELSE st[k]], Tail(ws))

NodeOrder == <<"supervisor">> \o SWARM_NAMES \o <<"synthesizer">>

\* ------------------------------------------------------------------------
\* The retrieval index (the persisted collection the agents query)
\* ------------------------------------------------------------------------

Entry(persona, speaker, doc) ==
  [persona  |-> persona,
   document |-> doc,
   meta     |-> [speaker_name  |-> speaker,
                 timestamp     |-> "00:01:00",
                 episode_title |-> "Episode"]]

\* one passage for each swarm
PopulatedIndex ==
  << Entry("founder_swarm", <<"a", "l", "-", "b", "o">>, <<"c", "c">>),
     Entry("product_swarm", <<"c", "y">>, <<"c">>),
     Entry("growth_swarm", <<"d", "i">>, <<"c">>),
     Entry("engineering_swarm", <<"e", "d">>, <<"c">>) >>

\* the contents the index may have when a request arrives
Indexes == {PopulatedIndex, Tail(PopulatedIndex)}

\* ------------------------------------------------------------------------
\* State
\* ------------------------------------------------------------------------

VARIABLES
  mode,       \* "none", or the endpoint that took the request: "blocking" / "streaming"
  request,    \* the problem of the request
  index,      \* the retrieval index
  state,      \* CouncilState: the channel values of the execution
  gstatus,    \* "idle", "running", "done", "failed": the graph execution
  task,       \* per node, its task in the current superstep
  writes,     \* the updates returned by the nodes of the current superstep
  runs,       \* per node, how many times it was started
  finished,   \* per node, how many times it returned or raised
  raisedBy,   \* the node whose exception ended the execution, or "none"
  calls,      \* per node, the completion calls it issued
  agentArgs,  \* per swarm, the query its agent was invoked with
  events,     \* the events sent on the stream, in order
  http,       \* the response of the endpoint
  other,      \* a second execution served by the same process, while it is not scheduled
  current,    \* which of the two executions the variables above belong to
  ingest      \* the run of the ingestion script, transcript by transcript

vars == <<mode, request, index, state, gstatus, task, writes, runs, finished,
          raisedBy, calls, agentArgs, events, http, other, current, ingest>>

graphVars == <<state, gstatus, task, writes, runs, finished, raisedBy, calls, agentArgs>>

NoMap == <<>>

NoResponseYet == [status |-> 0, body |-> PyNone]

Event(name, data) == [event |-> name, data |-> data]

\* the ingestion script is not running
NoIngest == [phase |-> "none"]

\* an execution that has not received its request yet
FreshExecution ==
  [mode      |-> "none",
   request   |-> <<>>,
   state     |-> NoMap,
   gstatus   |-> "idle",
   task      |-> [n \in Nodes |-> "idle"],
   writes    |-> NoMap,
   runs      |-> [n \in Nodes |-> 0],
   finished  |-> [n \in Nodes |-> 0],
   raisedBy  |-> "none",
   calls     |-> [n \in Nodes |-> <<>>],
   agentArgs |-> NoMap,
   events    |-> <<>>,
   http      |-> NoResponseYet]

\* the process before any request, over one of the given indexes
InitOver(indexes) ==
  /\ other = FreshExecution
  /\ current = 1
  /\ ingest = NoIngest
  /\ mode = "none"
  /\ request = <<>>
  /\ index \in indexes
  /\ state = NoMap
  /\ gstatus = "idle"
  /\ task = [n \in Nodes |-> "idle"]
  /\ writes = NoMap
  /\ runs = [n \in Nodes |-> 0]
  /\ finished = [n \in Nodes |-> 0]
  /\ raisedBy = "none"
  /\ calls = [n \in Nodes |-> <<>>]
  /\ agentArgs = NoMap
  /\ events = <<>>
  /\ http = NoResponseYet

Init == InitOver(Indexes)

\* f with key k set to v
Put(f, k, v) == [x \in (DOMAIN f) \cup {k} |-> IF x = k THEN v ELSE f[x]]

\* council_graph.invoke / astream_events with {"problem": problem}
\* (agent_graph.py:175, 195-199): the entry point is scheduled
\* the graph compiled with a checkpointer on one fixed thread: an invocation
\* resumes from the state the process's other execution left
StartGraph_resumed(problem) ==
  /\ state' = Put(other.state, "problem", problem)
  /\ gstatus' = "running"
  /\ task' = [task EXCEPT ![EntryPoint] = "pending"]
  /\ UNCHANGED <<writes, runs, finished, raisedBy, calls, agentArgs>>

\* council_graph.invoke / astream_events start an execution on a state the
\* caller has just built (agent_graph.py:176, 198-201): the graph is compiled
\* without a checkpointer (agent_graph.py:158)
StartGraph(problem) ==
  /\ state' = [k \in {"problem"} |-> problem]
  /\ gstatus' = "running"
  /\ task' = [task EXCEPT ![EntryPoint] = "pending"]
  /\ UNCHANGED <<writes, runs, finished, raisedBy, calls, agentArgs>>

\* POST /api/council (main.py:81-95), up to the call of invoke_council
convene_council(problem) ==
  /\ mode = "none"
  /\ mode' = "blocking"
  /\ request' = problem
  /\ IF strip(problem) = <<>>
       THEN /\ http' = [status |-> 400, body |-> "Problem statement cannot be empty"]
            /\ UNCHANGED graphVars
     ELSE /\ StartGraph(problem)
          /\ UNCHANGED http
  /\ UNCHANGED <<index, events, other, current, ingest>>

\* POST /api/council/stream (main.py:98-125), up to the first step of the generator
stream_council_response(problem) ==
  /\ mode = "none"
  /\ mode' = "streaming"
  /\ request' = problem
  /\ IF strip(problem) = <<>>
       THEN /\ http' = [status |-> 400, body |-> "Problem statement cannot be empty"]
            /\ UNCHANGED graphVars
     ELSE /\ StartGraph(problem)
          /\ http' = [status |-> 200, body |-> "text/event-stream"]
  /\ UNCHANGED <<index, events, other, current, ingest>>

\* stream_council yielding a start event for every node of the graph
start_events_every_node(n) ==
  <<Event("swarm_start", [swarm |-> n, display_name |-> n])>>

\* stream_council matching the start of the first swarm only
start_events_first_only(n) ==
  IF n = SWARM_NAMES[1]
    THEN <<Event("swarm_start", [swarm |-> n, display_name |-> SWARMS[n].display_name])>>
  ELSE <<>>

\* the events stream_council yields for on_chain_start of node n (agent_graph.py:204-211)
start_events(n) ==
  IF n \in SwarmSet
    THEN <<Event("swarm_start", [swarm |-> n, display_name |-> SWARMS[n].display_name])>>
  ELSE <<>>

\* stream_council yielding done right after synthesis_complete, inside the loop
end_events_done_in_loop(n, output) ==
  IF n \in SwarmSet
    THEN <<Event("swarm_complete",
                 [swarm        |-> n,
                  display_name |-> SWARMS[n].display_name,
                  response     |-> IF response_key(n) \in DOMAIN output
                                     THEN output[response_key(n)] ELSE NoMap])>>
  ELSE IF n = "synthesizer"
    THEN <<Event("synthesis_complete",
                 [synthesis |-> IF "synthesis" \in DOMAIN output
                                  THEN output["synthesis"] ELSE ""]),
           Event("done", NoMap)>>
  ELSE <<>>

\* stream_council matching no node as the synthesizer
end_events_no_synthesis(n, output) ==
  IF n \in SwarmSet
    THEN <<Event("swarm_complete",
                 [swarm        |-> n,
                  display_name |-> SWARMS[n].display_name,
                  response     |-> IF response_key(n) \in DOMAIN output
                                     THEN output[response_key(n)] ELSE NoMap])>>
  ELSE <<>>

\* stream_council reading the swarm's node name, not its response key, in the
\* node's output
end_events_wrong_key(n, output) ==
  IF n \in SwarmSet
    THEN <<Event("swarm_complete",
                 [swarm        |-> n,
                  display_name |-> SWARMS[n].display_name,
                  response     |-> IF n \in DOMAIN output THEN output[n] ELSE NoMap])>>
  ELSE IF n = "synthesizer"
    THEN <<Event("synthesis_complete",
                 [synthesis |-> IF "synthesis" \in DOMAIN output
                                  THEN output["synthesis"] ELSE ""])>>
  ELSE <<>>

\* the events stream_council yields for on_chain_end of node n with its output
\* (agent_graph.py:214-231)
end_events(n, output) ==
  IF n \in SwarmSet
    THEN <<Event("swarm_complete",
                 [swarm        |-> n,
                  display_name |-> SWARMS[n].display_name,
                  response     |-> IF response_key(n) \in DOMAIN output
                                     THEN output[response_key(n)] ELSE NoMap])>>
  ELSE IF n = "synthesizer"
    THEN <<Event("synthesis_complete",
                 [synthesis |-> IF "synthesis" \in DOMAIN output
                                  THEN output["synthesis"] ELSE ""])>>
  ELSE <<>>

\* a task of the current superstep starts running
NodeStart(n) ==
  /\ gstatus = "running"
  /\ task[n] = "pending"
  /\ task' = [task EXCEPT ![n] = "running"]
  /\ runs' = [runs EXCEPT ![n] = @ + 1]
  /\ events' = IF mode = "streaming" THEN events \o start_events(n) ELSE events
  /\ UNCHANGED <<mode, request, index, state, gstatus, writes, finished, raisedBy,
                 calls, agentArgs, http, other, current, ingest>>

\* node n returns update: the update is buffered until the superstep ends
Return(n, update) ==
  /\ task' = [task EXCEPT ![n] = "done"]
  /\ writes' = Put(writes, n, update)
  /\ finished' = [finished EXCEPT ![n] = @ + 1]
  /\ events' = IF mode = "streaming" THEN events \o end_events(n, update) ELSE events
  /\ UNCHANGED <<state, gstatus, raisedBy, http>>

\* a swarm's exception answered with a swarm_complete event carrying the
\* default response, before the error is reported
Raise_fabricating(n, error) ==
  /\ task' = [m \in Nodes |->
                IF m = n THEN "raised"
                ELSE IF task[m] \in {"pending", "running"} THEN "cancelled"
                ELSE task[m]]
  /\ finished' = [finished EXCEPT ![n] = @ + 1]
  /\ gstatus' = "failed"
  /\ raisedBy' = n
  /\ IF mode = "streaming"
       THEN /\ events' = events \o end_events(n, NoMap)
                                \o <<Event("error", [error |-> error])>>
            /\ UNCHANGED http
     ELSE /\ http' = [status |-> 500, body |-> error]
          /\ UNCHANGED events
  /\ UNCHANGED <<state, writes>>

\* the exception reported by the endpoint but not ending the execution: the
\* other tasks of the superstep go on
Raise_and_continue(n, error) ==
  /\ task' = [task EXCEPT ![n] = "raised"]
  /\ finished' = [finished EXCEPT ![n] = @ + 1]
  /\ gstatus' = IF \E m \in Nodes \ {n} : task[m] \in {"pending", "running"}
                  THEN gstatus ELSE "failed"
  /\ raisedBy' = n
  /\ IF mode = "streaming"
       THEN /\ events' = Append(events, Event("error", [error |-> error]))
            /\ UNCHANGED http
     ELSE /\ http' = [status |-> 500, body |-> error]
          /\ UNCHANGED events
  /\ UNCHANGED <<state, writes>>

\* node n raises: the exception leaves the graph, the other tasks of the
\* superstep are abandoned, and the endpoint reports it
\* (main.py:94-95 and main.py:119-123)
Raise(n, error) ==
  /\ task' = [m \in Nodes |->
                IF m = n THEN "raised"
                ELSE IF task[m] \in {"pending", "running"} THEN "cancelled"
                ELSE task[m]]
  /\ finished' = [finished EXCEPT ![n] = @ + 1]
  /\ gstatus' = "failed"
  /\ raisedBy' = n
  /\ IF mode = "streaming"
       THEN /\ events' = Append(events, Event("error", [error |-> error]))
            /\ UNCHANGED http
     ELSE /\ http' = [status |-> 500, body |-> error]
          /\ UNCHANGED events
  /\ UNCHANGED <<state, writes>>

Settle(n, outcome) ==
  IF outcome.raised THEN Raise(n, outcome.error) ELSE Return(n, outcome.update)

Call(input, completion) ==
  [input |-> input, raised |-> completion.raised, output |-> completion.text]

\* the supervisor node runs (agent_graph.py:53-83)
SupervisorRun ==
  /\ gstatus = "running"
  /\ task["supervisor"] = "running"
  /\ \E completion \in {[raised |-> TRUE, text |-> <<>>]}
                         \cup {Completed(text) : text \in SupervisorTexts} :
       /\ calls' = [calls EXCEPT !["supervisor"] = Append(@, Call(state["problem"], completion))]
       /\ Settle("supervisor", supervisor_node(state, completion))
  /\ UNCHANGED <<mode, request, index, runs, agentArgs, other, current, ingest>>

\* the swarm node reading the first swarm's query key
node_query_first(state_, b) ==
  IF query_key(SWARM_NAMES[1]) \in DOMAIN state_ THEN state_[query_key(SWARM_NAMES[1])]
  ELSE PyStr(Text(state_["problem"]))

\* the query a swarm node hands to its agent (agent_graph.py:101)
node_query(state_, b) ==
  IF query_key(b) \in DOMAIN state_ THEN state_[query_key(b)]
  ELSE PyStr(Text(state_["problem"]))

\* a swarm node runs (agent_graph.py:97-104): failing is the external call of
\* the agent that raises, 0 when none does
SwarmRun(b) ==
  /\ gstatus = "running"
  /\ task[b] = "running"
  /\ LET query == node_query(state, b)
     IN /\ agentArgs' = Put(agentArgs, b, query)
        /\ \E failing \in 0..Len(AgentCalls) :
             /\ calls' = IF failing \in {0, Len(AgentCalls)}
                           THEN [calls EXCEPT ![b] =
                                   Append(@, Call(agent_call(b, query, index),
                                                  IF failing = 0 THEN Completed(SwarmCompletion(b))
                                                  ELSE [raised |-> TRUE, text |-> ""]))]
                         ELSE calls
             /\ IF failing = 0
                  THEN Return(b, [k \in {response_key(b)} |->
                                    agent_result(b, SWARMS[b].display_name, index,
                                                 SwarmCompletion(b))])
                ELSE Raise(b, AgentCalls[failing] \o " failed")
  /\ UNCHANGED <<mode, request, index, runs, other, current, ingest>>

\* the synthesizer node runs (agent_graph.py:109-127)
SynthesizerRun ==
  /\ gstatus = "running"
  /\ task["synthesizer"] = "running"
  /\ \E completion \in {[raised |-> TRUE, text |-> ""]}
                         \cup {Completed(text) : text \in SynthTexts} :
       /\ calls' = [calls EXCEPT !["synthesizer"] = Append(@, Call(synthesizer_input(state), completion))]
       /\ Settle("synthesizer", synthesizer_node(state, completion))
  /\ UNCHANGED <<mode, request, index, runs, agentArgs, other, current, ingest>>

\* invoke_council reading two of the responses under each other's key
invoke_council_swapped(result) ==
  [problem           |-> result["problem"],
   founder_swarm     |-> state_get(result, "product_swarm_response"),
   product_swarm     |-> state_get(result, "founder_swarm_response"),
   growth_swarm      |-> state_get(result, "growth_swarm_response"),
   engineering_swarm |-> state_get(result, "engineering_swarm_response"),
   synthesis         |-> state_get(result, "synthesis")]

\* the dict invoke_council builds from the final state (agent_graph.py:177-184)
invoke_council(result) ==
  [problem           |-> result["problem"],
   founder_swarm     |-> state_get(result, "founder_swarm_response"),
   product_swarm     |-> state_get(result, "product_swarm_response"),
   growth_swarm      |-> state_get(result, "growth_swarm_response"),
   engineering_swarm |-> state_get(result, "engineering_swarm_response"),
   synthesis         |-> state_get(result, "synthesis")]

\* the updates of the nodes that ran, in node order
RECURSIVE WritesInOrder(_, _)
WritesInOrder(ws, order) ==
  IF order = <<>> THEN <<>>
  ELSE (IF Head(order) \in DOMAIN ws THEN <<ws[Head(order)]>> ELSE <<>>)
       \o WritesInOrder(ws, Tail(order))

\* stream_council ending without a last event
stream_end_silent(evs) == evs

\* the event stream_council yields once the graph's events are exhausted
\* (agent_graph.py:233)
stream_end(evs) == Append(evs, Event("done", NoMap))

\* every task of the superstep has returned: the updates are applied and the
\* nodes the edges lead to are scheduled; with none left the execution is over
\* and the endpoint answers (agent_graph.py:177-184, 233; main.py:92-93)
StepEnd ==
  /\ gstatus = "running"
  /\ \A n \in Nodes : task[n] \in {"idle", "done"}
  /\ \E n \in Nodes : task[n] = "done"
  /\ LET ran == {n \in Nodes : task[n] = "done"}
         next == Triggered(ran)
         result == ApplyWrites(state, WritesInOrder(writes, NodeOrder))
     IN /\ state' = result
        /\ writes' = NoMap
        /\ task' = [n \in Nodes |-> IF n \in next THEN "pending" ELSE "idle"]
        /\ IF next # {}
             THEN UNCHANGED <<gstatus, events, http>>
           ELSE /\ gstatus' = "done"
                /\ IF mode = "streaming"
                     THEN /\ events' = stream_end(events)
                          /\ UNCHANGED http
                   ELSE /\ http' = [status |-> 200, body |-> invoke_council(result)]
                        /\ UNCHANGED events
  /\ UNCHANGED <<mode, request, index, runs, finished, raisedBy, calls, agentArgs,
                 other, current, ingest>>

Next ==
  \/ \E problem \in Problems : convene_council(problem)
  \/ \E problem \in Problems : stream_council_response(problem)
  \/ \E n \in Nodes : NodeStart(n)
  \/ SupervisorRun
  \/ \E b \in SwarmSet : SwarmRun(b)
  \/ SynthesizerRun
  \/ StepEnd

Spec == Init /\ [][Next]_vars

\* ------------------------------------------------------------------------
\* synthesizer_node on its own: the node applied to every CouncilState in
\* which any subset of the swarm responses is missing or None
\* ------------------------------------------------------------------------

\* the ways a swarm response can be held by the state the node is given
Presences == {"missing", "none", "present"}

CouncilStateWith(presence) ==
  [k \in {"problem"} \cup QueryKeys
           \cup {response_key(b) : b \in {x \in SwarmSet : presence[x] # "missing"}} |->
     IF k = "problem" THEN <<"c">>
     ELSE IF k \in QueryKeys THEN PyStr(TailoredQuery(CHOOSE b \in SwarmSet : query_key(b) = k))
     ELSE LET b == CHOOSE x \in SwarmSet : response_key(x) = k
          IN IF presence[b] = "none" THEN PyNone
             ELSE agent_result(b, SWARMS[b].display_name, PopulatedIndex, SwarmCompletion(b))]

InitSynth ==
  /\ other = FreshExecution
  /\ current = 1
  /\ ingest = NoIngest
  /\ mode \in {"blocking", "streaming"}
  /\ request = <<"c">>
  /\ index = PopulatedIndex
  /\ \E presence \in [SwarmSet -> Presences] : state = CouncilStateWith(presence)
  /\ gstatus = "running"
  /\ task = [n \in Nodes |-> IF n = "synthesizer" THEN "pending" ELSE "idle"]
  /\ writes = NoMap
  /\ runs = [n \in Nodes |-> 0]
  /\ finished = [n \in Nodes |-> 0]
  /\ raisedBy = "none"
  /\ calls = [n \in Nodes |-> <<>>]
  /\ agentArgs = NoMap
  /\ events = <<>>
  /\ http = IF mode = "streaming" THEN [status |-> 200, body |-> "text/event-stream"]
            ELSE NoResponseYet

NextSynth ==
  \/ NodeStart("synthesizer")
  \/ SynthesizerRun
  \/ StepEnd

SpecSynth == InitSynth /\ [][NextSynth]_vars

\* ------------------------------------------------------------------------
\* Two executions served by one process (main.py:81-125 called twice on the
\* one council_graph of agent_graph.py:162), each with a few external outcomes
\* ------------------------------------------------------------------------

\* the scheduled execution, as the record kept of it while the other one runs
Execution ==
  [mode      |-> mode,
   request   |-> request,
   state     |-> state,
   gstatus   |-> gstatus,
   task      |-> task,
   writes    |-> writes,
   runs      |-> runs,
   finished  |-> finished,
   raisedBy  |-> raisedBy,
   calls     |-> calls,
   agentArgs |-> agentArgs,
   events    |-> events,
   http      |-> http]

\* the process turns from one execution to the other: between two requests
\* served one after another, or between two steps of requests served together
Switch ==
  /\ other' = Execution
  /\ current' = 3 - current
  /\ mode' = other.mode
  /\ request' = other.request
  /\ state' = other.state
  /\ gstatus' = other.gstatus
  /\ task' = other.task
  /\ writes' = other.writes
  /\ runs' = other.runs
  /\ finished' = other.finished
  /\ raisedBy' = other.raisedBy
  /\ calls' = other.calls
  /\ agentArgs' = other.agentArgs
  /\ events' = other.events
  /\ http' = other.http
  /\ UNCHANGED <<index, ingest>>

\* the problems the two executions are given
TwoProblems == {<<>>, <<"c">>}

\* the external outcomes the two executions meet: the supervisor's completion
\* raises, is the full object or is empty text; an agent fails in its
\* completion only; the synthesizer's completion raises or is its text
TwoOutcomes ==
  /\ \A i \in DOMAIN calls["supervisor"] :
        calls["supervisor"][i].raised \/ calls["supervisor"][i].output \in {FullObject, <<>>}
  /\ raisedBy \in SwarmSet => calls[raisedBy] # <<>>
  /\ \A i \in DOMAIN calls["synthesizer"] :
        calls["synthesizer"][i].raised \/ calls["synthesizer"][i].output # ""

InitTwo == Init /\ index = PopulatedIndex

NextTwo ==
  \/ \E problem \in TwoProblems : convene_council(problem)
  \/ \E n \in Nodes : NodeStart(n)
  \/ SupervisorRun /\ TwoOutcomes'
  \/ \E b \in SwarmSet : SwarmRun(b) /\ TwoOutcomes'
  \/ SynthesizerRun /\ TwoOutcomes'
  \/ StepEnd
  \/ Switch

SpecTwo == InitTwo /\ [][NextTwo]_vars

\* ------------------------------------------------------------------------
\* A blocking execution followed by a streaming one (agent_graph.py:165-233)
\* ------------------------------------------------------------------------

\* the endpoint has answered the blocking request
BlockingAnswered == mode = "blocking" /\ http.status # 0

\* the process turns to the second request once the first is answered
SwitchOnce == current = 1 /\ BlockingAnswered /\ Switch

\* what the external calls of an execution did, node by node: raised or the text
Outcomes(cs) ==
  [n \in Nodes |-> [i \in DOMAIN cs[n] |-> [raised |-> cs[n][i].raised,
                                            output |-> cs[n][i].output]]]

\* the external calls of the second execution do what the same calls of the
\* first one did, where the first one made them; the founder swarm is the one
\* whose agent may fail
SameOutcomes ==
  /\ raisedBy \in SwarmSet => raisedBy = SWARM_NAMES[1]
  /\ current = 2 =>
       \A n \in Nodes : \A i \in DOMAIN calls[n] \cap DOMAIN other.calls[n] :
         Outcomes(calls)[n][i] = Outcomes(other.calls)[n][i]

NextPair ==
  \/ \E problem \in TwoProblems : current = 1 /\ convene_council(problem)
  \/ \E problem \in TwoProblems : current = 2 /\ stream_council_response(problem)
  \/ \E n \in Nodes : NodeStart(n)
  \/ SupervisorRun /\ TwoOutcomes' /\ SameOutcomes'
  \/ \E b \in SwarmSet : SwarmRun(b) /\ TwoOutcomes' /\ SameOutcomes'
  \/ SynthesizerRun /\ TwoOutcomes' /\ SameOutcomes'
  \/ StepEnd
  \/ SwitchOnce

SpecPair == InitTwo /\ [][NextPair]_vars

\* ------------------------------------------------------------------------
\* One execution whose steps are taken fairly (agent_graph.py:165-233)
\* ------------------------------------------------------------------------

\* a step of the graph's execution: a task starts, a node's external calls
\* return or raise and the node settles, or the superstep ends; the external
\* outcomes are those of TwoOutcomes and the founder swarm is the one whose
\* agent may fail
GraphStep ==
  \/ \E n \in Nodes : NodeStart(n)
  \/ SupervisorRun /\ TwoOutcomes'
  \/ \E b \in SwarmSet : SwarmRun(b) /\ TwoOutcomes' /\ raisedBy' \in {"none", SWARM_NAMES[1]}
  \/ SynthesizerRun /\ TwoOutcomes'
  \/ StepEnd

\* the process before any request, the collection holding no passage yet
InitLive == InitOver({<<>>})

NextLive ==
  \/ \E problem \in TwoProblems : convene_council(problem)
  \/ \E problem \in TwoProblems : stream_council_response(problem)
  \/ GraphStep

\* one execution under the assumption that every external call returns or
\* raises and that the runtime goes on running the tasks it has scheduled
FairSpec == InitLive /\ [][NextLive]_vars /\ WF_vars(GraphStep)

\* ------------------------------------------------------------------------
\* The swarms' step over indexes of passages of several lengths
\* (agents/base_agent.py:67-118 under agent_graph.py:97-104)
\* ------------------------------------------------------------------------

\* a passage of n characters, the last one told apart from the others
Passage(n) == [i \in 1..n |-> IF i = n THEN "z" ELSE "a"]

\* the lengths of the founder swarm's passages in the first index: around the
\* budget of the preview
PassageLens == <<PreviewLen - 1, PreviewLen, PreviewLen + 1>>

\* an index with passages around the budget, an empty one and a long one; and
\* an index with more passages of one swarm than a query asks for
AgentIndexes ==
  { [i \in 1..Len(PassageLens) |->
       Entry("founder_swarm", <<"a", "l", "-", "b", "o">>, Passage(PassageLens[i]))]
      \o << Entry("product_swarm", <<"c", "y">>, <<>>),
            Entry("growth_swarm", <<"d", "i">>, Passage(PreviewLen + 50)) >>,
    [i \in 1..(NResults + 1) |-> Entry("founder_swarm", <<"e", "d">>, Passage(i))] }

\* the execution once the supervisor's step has ended with the tailored queries
InitAgent ==
  /\ other = FreshExecution
  /\ current = 1
  /\ ingest = NoIngest
  /\ mode \in {"blocking", "streaming"}
  /\ request = <<"c">>
  /\ index \in AgentIndexes
  /\ state = [k \in {"problem"} \cup QueryKeys |->
                IF k = "problem" THEN <<"c">>
                ELSE PyStr(TailoredQuery(CHOOSE b \in SwarmSet : query_key(b) = k))]
  /\ gstatus = "running"
  /\ task = [n \in Nodes |-> IF n \in SwarmSet THEN "pending" ELSE "idle"]
  /\ writes = NoMap
  /\ runs = [n \in Nodes |-> IF n = "supervisor" THEN 1 ELSE 0]
  /\ finished = [n \in Nodes |-> IF n = "supervisor" THEN 1 ELSE 0]
  /\ raisedBy = "none"
  /\ calls = [n \in Nodes |->
                IF n = "supervisor" THEN <<Call(<<"c">>, Completed(FullObject))>> ELSE <<>>]
  /\ agentArgs = NoMap
  /\ events = <<>>
  /\ http = IF mode = "streaming" THEN [status |-> 200, body |-> "text/event-stream"]
            ELSE NoResponseYet

NextAgent ==
  \/ \E b \in SwarmSet : NodeStart(b)
  \/ \E b \in SwarmSet : SwarmRun(b)
  \/ StepEnd

SpecAgent == InitAgent /\ [][NextAgent]_vars

\* ------------------------------------------------------------------------
\* Ingestion of the transcripts (ingest_data.py)
\* ------------------------------------------------------------------------

\* the most lines a transcript body has
MaxLines == 3

IsUpper(c) == \E i \in 1..Len(UpperCase) : UpperCase[i] = c

IsLower(c) == \E i \in 1..Len(LowerCase) : LowerCase[i] = c

IsLetter(c) == IsUpper(c) \/ IsLower(c)

IsDigit(c) == c \in {"0", "1", "2", "3", "4", "5", "6", "7", "8", "9"}

\* sub in cs, for sequences of characters
Contains(sub, cs) ==
  \E i \in 1..(Len(cs) - Len(sub) + 1) : SubSeq(cs, i, i + Len(sub) - 1) = sub

\* "\n".join(lines), for lines that are sequences of characters
RECURSIVE JoinLines(_)
JoinLines(ls) ==
  IF ls = <<>> THEN <<>>
  ELSE IF Len(ls) = 1 THEN ls[1]
  ELSE ls[1] \o <<"\n">> \o JoinLines(Tail(ls))

\* \(\d{2}:\d{2}:\d{2}\): found in line at position p
StampAt(line, p) ==
  /\ p + 10 <= Len(line)
  /\ line[p] = "(" /\ IsDigit(line[p + 1]) /\ IsDigit(line[p + 2])
  /\ line[p + 3] = ":" /\ IsDigit(line[p + 4]) /\ IsDigit(line[p + 5])
  /\ line[p + 6] = ":" /\ IsDigit(line[p + 7]) /\ IsDigit(line[p + 8])
  /\ line[p + 9] = ")" /\ line[p + 10] = ":"

\* "This episode is brought to you by" (ingest_data.py:60)
SponsorPhrase ==
  <<"T", "h", "i", "s", " ", "e", "p", "i", "s", "o", "d", "e", " ", "i",
    "s", " ", "b", "r", "o", "u", "g", "h", "t", " ", "t", "o", " ", "y",
    "o", "u", " ", "b", "y">>

\* re.match(r"^[A-Z][a-z]+ [A-Z]?[a-z]* ?\(\d{2}:\d{2}:\d{2}\):", line)
\* (ingest_data.py:65): a capitalised word of a letters, a space, at most one
\* capital, c small letters, at most one space, the timestamp
sponsor_end(line) ==
  \E a \in 2..Len(line), u \in {0, 1}, c \in 0..Len(line), s \in {0, 1} :
    /\ StampAt(line, a + 2 + u + c + s)
    /\ IsUpper(line[1])
    /\ \A i \in 2..a : IsLower(line[i])
    /\ line[a + 1] = " "
    /\ u = 1 => IsUpper(line[a + 2])
    /\ \A i \in (a + 2 + u)..(a + 1 + u + c) : IsLower(line[i])
    /\ s = 1 => line[a + 2 + u + c] = " "

\* the loop of clean_transcript from line i on (ingest_data.py:58-69)
RECURSIVE clean_lines(_, _, _, _)
clean_lines(lines, i, in_sponsor_block, cleaned_lines) ==
  IF i > Len(lines) THEN cleaned_lines
  ELSE IF Contains(SponsorPhrase, lines[i])
    THEN clean_lines(lines, i + 1, TRUE, cleaned_lines)
  ELSE LET still == in_sponsor_block /\ ~sponsor_end(lines[i])
       IN clean_lines(lines, i + 1, still,
                      IF still THEN cleaned_lines ELSE Append(cleaned_lines, lines[i]))

\* clean_transcript (ingest_data.py:52-71)
clean_transcript(body) ==
  JoinLines(clean_lines(split(body, "\n", <<>>), 1, FALSE, <<>>))

\* [A-Za-z\- ], the characters of a speaker's name after the first
IsNameChar(c) == IsLetter(c) \/ c \in {"-", " "}

\* where the timestamp of a turn header opens in line, for
\* r"^([A-Za-z][A-Za-z\- ]+) \((\d{2}:\d{2}:\d{2})\):\s*" (ingest_data.py:77)
HeaderStamps(line) ==
  {p \in 4..Len(line) :
     /\ StampAt(line, p)
     /\ line[p - 1] = " "
     /\ IsLetter(line[1])
     /\ \A i \in 2..(p - 2) : IsNameChar(line[i])}

\* re.match(pattern, line): group(1), group(2) and line[match.end():]
header_match(line) ==
  IF HeaderStamps(line) = {} THEN [matched |-> FALSE]
  ELSE LET p == CHOOSE q \in HeaderStamps(line) : TRUE
       IN [matched   |-> TRUE,
           speaker   |-> SubSeq(line, 1, p - 2),
           timestamp |-> SubSeq(line, p + 1, p + 8),
           rest      |-> lstrip(SubSeq(line, p + 11, Len(line)))]

\* a line of speech with its mid-speech timestamp removed (ingest_data.py:106-110)
speech_of(line) ==
  IF StampAt(line, 1) THEN lstrip(SubSeq(line, 12, Len(line))) ELSE line

\* name.lower().replace("-", " ").strip() (ingest_data.py:84-85)
normalize(name) ==
  strip([i \in 1..Len(name) |-> IF name[i] = "-" THEN " " ELSE lower(name[i])])

\* target_norm in speaker_norm or speaker_norm in target_norm
same_speaker(speaker, target_speaker) ==
  \/ Contains(normalize(target_speaker), normalize(speaker))
  \/ Contains(normalize(speaker), normalize(target_speaker))

\* no turn is open
NoTurn == [open |-> FALSE, text |-> <<>>]

\* segments with the open turn saved whoever its speaker is
saved_any(segments, turn, target_speaker) ==
  IF turn.open
    THEN Append(segments, [speaker   |-> turn.speaker,
                           timestamp |-> turn.timestamp,
                           text      |-> strip(JoinLines(turn.text))])
  ELSE segments

\* segments with the open turn saved if it is the target speaker's
\* (ingest_data.py:91-99 and 113-121)
saved(segments, turn, target_speaker) ==
  IF turn.open /\ same_speaker(turn.speaker, target_speaker)
    THEN Append(segments, [speaker   |-> turn.speaker,
                           timestamp |-> turn.timestamp,
                           text      |-> strip(JoinLines(turn.text))])
  ELSE segments

\* the loop of extract_speaker_segments from line i on (ingest_data.py:87-121)
RECURSIVE extract_lines(_, _, _, _, _)
extract_lines(lines, i, turn, segments, target_speaker) ==
  IF i > Len(lines) THEN saved(segments, turn, target_speaker)
  ELSE LET match == header_match(lines[i])
       IN IF match.matched
            THEN extract_lines(lines, i + 1,
                               [open      |-> TRUE,
                                speaker   |-> match.speaker,
                                timestamp |-> match.timestamp,
                                text      |-> <<match.rest>>],
                               saved(segments, turn, target_speaker),
                               target_speaker)
          ELSE extract_lines(lines, i + 1,
                             [turn EXCEPT !.text = Append(@, speech_of(lines[i]))],
                             segments, target_speaker)

\* extract_speaker_segments (ingest_data.py:74-124)
extract_speaker_segments(body, target_speaker) ==
  extract_lines(split(body, "\n", <<>>), 1, NoTurn, <<>>, target_speaker)

\* " ".join(words), for words that are sequences of characters
RECURSIVE JoinWords(_)
JoinWords(words) ==
  IF words = <<>> THEN <<>>
  ELSE IF Len(words) = 1 THEN words[1]
  ELSE words[1] \o <<" ">> \o JoinWords(Tail(words))

\* get_display_name_from_speaker (ingest_data.py:154-156)
get_display_name_from_speaker(speaker_name) ==
  LET words == split(speaker_name, "-", <<>>)
  IN JoinWords([i \in 1..Len(words) |-> capitalize(words[i])])

\* a map listing one speaker under two swarms
PERSONA_MAP_twice ==
  [
   founder_swarm |->
       <<"brian-chesky", "tobi-lutke", "marc-benioff", "dylan-field",
         "stewart-butterfield", "ben-horowitz", "nikita-bier", "kunal-shah">>,
   product_swarm |->
       <<"marty-cagan", "shreyas-doshi", "julie-zhuo", "gibson-biddle",
         "tomer-cohen", "noam-lovinsky", "lenny-rachitsky">>,
   growth_swarm |->
       <<"elena-verna", "brian-balfour", "casey-winters", "sean-ellis",
         "ayo-omojola", "sri-batchu", "patrick-campbell", "lenny-rachitsky">>,
   engineering_swarm |->
       <<"will-larson", "camille-fournier", "david-singleton",
         "farhan-thawar", "dhanji-r-prasanna", "chip-huyen", "geoff-charles">>
  ]

\* PERSONA_MAP (persona_mapping.py:9-26)
PERSONA_MAP ==
  [
   founder_swarm |->
       <<"brian-chesky", "tobi-lutke", "marc-benioff", "dylan-field",
         "stewart-butterfield", "ben-horowitz", "nikita-bier", "kunal-shah">>,
   product_swarm |->
       <<"marty-cagan", "shreyas-doshi", "julie-zhuo", "gibson-biddle",
         "tomer-cohen", "noam-lovinsky", "lenny-rachitsky">>,
   growth_swarm |->
       <<"elena-verna", "brian-balfour", "casey-winters", "sean-ellis",
         "ayo-omojola", "sri-batchu", "patrick-campbell">>,
   engineering_swarm |->
       <<"will-larson", "camille-fournier", "david-singleton",
         "farhan-thawar", "dhanji-r-prasanna", "chip-huyen", "geoff-charles">>
  ]

\* the order in which PERSONA_MAP.items() yields the swarms
PersonaOrder == <<"founder_swarm", "product_swarm", "growth_swarm", "engineering_swarm">>

\* no swarm lists the speaker
NoPersona == "None"

\* the loop of get_persona_for_speaker over the swarms in the given order
\* (persona_mapping.py:39-42)
RECURSIVE persona_in(_, _)
persona_in(order, speaker_name) ==
  IF order = <<>> THEN NoPersona
  ELSE IF \E i \in 1..Len(PERSONA_MAP[Head(order)]) :
            PERSONA_MAP[Head(order)][i] = speaker_name
    THEN Head(order)
  ELSE persona_in(Tail(order), speaker_name)

\* get_persona_for_speaker (persona_mapping.py:29-42)
get_persona_for_speaker(speaker_name) == persona_in(PersonaOrder, Text(speaker_name))

\* chunk_segments for segments shorter than a chunk: one chunk for each segment
\* that is not blank (ingest_data.py:127-151)
chunk_segments(segments) ==
  LET kept == SelectSeq(segments, LAMBDA s : strip(s.text) # <<>>)
  IN [i \in 1..Len(kept) |-> [text        |-> strip(kept[i].text),
                              speaker     |-> kept[i].speaker,
                              timestamp   |-> kept[i].timestamp,
                              chunk_index |-> 0]]

\* the documents of one transcript with their metadata (ingest_data.py:259-276)
documents_of(chunks, speaker_name, persona, display_name, title) ==
  [i \in 1..Len(chunks) |->
     [persona  |-> persona,
      document |-> chunks[i].text,
      meta     |-> [speaker_name  |-> speaker_name,
                    guest         |-> display_name,
                    episode_title |-> title,
                    timestamp     |-> Text(chunks[i].timestamp),
                    chunk_index   |-> chunks[i].chunk_index]]]

\* a turn of the guest: "Brian Chesky (00:01:00): Hi"
TargetTurn ==
  <<"B", "r", "i", "a", "n", " ", "C", "h", "e", "s", "k", "y", " ", "(",
    "0", "0", ":", "0", "1", ":", "0", "0", ")", ":", " ", "H", "i">>

\* a turn of the host: "Lenny (00:02:00): Why"
HostTurn ==
  <<"L", "e", "n", "n", "y", " ", "(", "0", "0", ":", "0", "2", ":", "0",
    "0", ")", ":", " ", "W", "h", "y">>

\* the opening of a sponsor read: "This episode is brought to you by Acme"
SponsorLine ==
  <<"T", "h", "i", "s", " ", "e", "p", "i", "s", "o", "d", "e", " ", "i",
    "s", " ", "b", "r", "o", "u", "g", "h", "t", " ", "t", "o", " ", "y",
    "o", "u", " ", "b", "y", " ", "A", "c", "m", "e">>

\* a line of running speech: "and so on"
PlainLine ==
  <<"a", "n", "d", " ", "s", "o", " ", "o", "n">>

\* a line opening with a timestamp inside a turn: "(00:03:00): then"
StampLine ==
  <<"(", "0", "0", ":", "0", "3", ":", "0", "0", ")", ":", " ", "t", "h",
    "e", "n">>

\* a turn of a guest with a middle initial: "Dhanji R Prasanna (00:04:00): Yes"
InitialTurn ==
  <<"D", "h", "a", "n", "j", "i", " ", "R", " ", "P", "r", "a", "s", "a",
    "n", "n", "a", " ", "(", "0", "0", ":", "0", "4", ":", "0", "0", ")",
    ":", " ", "Y", "e", "s">>

\* an empty line: the empty string
BlankLine ==
  <<>>

\* a turn of the host opening a sponsor read: "Lenny (00:05:00): This episode is brought to you by Acme"
SponsorTurn ==
  <<"L", "e", "n", "n", "y", " ", "(", "0", "0", ":", "0", "5", ":", "0",
    "0", ")", ":", " ", "T", "h", "i", "s", " ", "e", "p", "i", "s", "o",
    "d", "e", " ", "i", "s", " ", "b", "r", "o", "u", "g", "h", "t", " ",
    "t", "o", " ", "y", "o", "u", " ", "b", "y", " ", "A", "c", "m", "e">>

\* a turn under the guest's first name: "Brian (00:06:00): Ok"
ShortTurn ==
  <<"B", "r", "i", "a", "n", " ", "(", "0", "0", ":", "0", "6", ":", "0",
    "0", ")", ":", " ", "O", "k">>

\* the lines transcripts are made of
Lines ==
  {TargetTurn, HostTurn, SponsorLine, PlainLine, StampLine,
   InitialTurn, BlankLine, SponsorTurn, ShortTurn}

\* the sequences of 1 to n lines
RECURSIVE LinesUpTo(_)
LinesUpTo(n) ==
  IF n = 1 THEN {<<l>> : l \in Lines}
  ELSE LET shorter == LinesUpTo(n - 1)
       IN shorter \cup {Append(ls, l) : ls \in {x \in shorter : Len(x) = n - 1}, l \in Lines}

\* the bodies of the transcripts
Bodies == {JoinLines(ls) : ls \in LinesUpTo(MaxLines)}

\* a founder: "brian-chesky"
BrianChesky ==
  <<"b", "r", "i", "a", "n", "-", "c", "h", "e", "s", "k", "y">>

\* an engineer with a middle initial: "dhanji-r-prasanna"
DhanjiRPrasanna ==
  <<"d", "h", "a", "n", "j", "i", "-", "r", "-", "p", "r", "a", "s", "a",
    "n", "n", "a">>

\* the host, listed as a product speaker: "lenny-rachitsky"
LennyRachitsky ==
  <<"l", "e", "n", "n", "y", "-", "r", "a", "c", "h", "i", "t", "s", "k", "y">>

\* a speaker no swarm lists: "jane-doe"
JaneDoe ==
  <<"j", "a", "n", "e", "-", "d", "o", "e">>

\* the folders of the episodes name these speakers
Speakers == {BrianChesky, DhanjiRPrasanna, LennyRachitsky, JaneDoe}

\* a transcript file: the speaker of its folder, its title and its body
Transcript(speaker_name, body) ==
  [speaker_name |-> speaker_name, title |-> "Episode", body |-> body]

\* what find_all_transcripts may return: one transcript of any body, or two
\* transcripts of one line each
TranscriptLists ==
  {<<Transcript(s, b)>> : s \in Speakers, b \in Bodies}
    \cup {<<Transcript(s, JoinLines(<<l>>)), Transcript(t, JoinLines(<<m>>))>> :
            s \in Speakers, l \in Lines, t \in Speakers, m \in Lines}

serverVars == <<mode, request, state, gstatus, task, writes, runs, finished,
                raisedBy, calls, agentArgs, events, http, other, current>>

\* the script is started over the persisted collection
InitIngest ==
  /\ other = FreshExecution
  /\ current = 1
  /\ mode = "none"
  /\ request = <<>>
  /\ index \in Indexes
  /\ state = NoMap
  /\ gstatus = "idle"
  /\ task = [n \in Nodes |-> "idle"]
  /\ writes = NoMap
  /\ runs = [n \in Nodes |-> 0]
  /\ finished = [n \in Nodes |-> 0]
  /\ raisedBy = "none"
  /\ calls = [n \in Nodes |-> <<>>]
  /\ agentArgs = NoMap
  /\ events = <<>>
  /\ http = NoResponseYet
  /\ \E ts \in TranscriptLists :
       ingest = [phase |-> "start", transcripts |-> ts, all_documents |-> <<>>,
                 skipped_speakers |-> {}]

\* the collection is deleted and created again (ingest_data.py:202-214)
CreateCollection ==
  /\ ingest.phase = "start"
  /\ index' = <<>>
  /\ ingest' = [ingest EXCEPT !.phase = "next"]
  /\ UNCHANGED serverVars

\* the next transcript is skipped when get_persona_for_speaker finds no swarm
\* for its speaker, and taken up otherwise (ingest_data.py:236-246)
Lookup ==
  /\ ingest.phase = "next"
  /\ ingest.transcripts # <<>>
  /\ LET t == Head(ingest.transcripts)
         persona == get_persona_for_speaker(t.speaker_name)
     IN IF persona = NoPersona
          THEN ingest' = [ingest EXCEPT
                            !.skipped_speakers = @ \cup {t.speaker_name},
                            !.transcripts = Tail(@)]
        ELSE ingest' = [phase            |-> "mapped",
                        transcripts      |-> ingest.transcripts,
                        all_documents    |-> ingest.all_documents,
                        skipped_speakers |-> ingest.skipped_speakers,
                        speaker_name     |-> t.speaker_name,
                        persona          |-> persona,
                        display_name     |-> get_display_name_from_speaker(t.speaker_name),
                        title            |-> t.title,
                        body             |-> t.body]
  /\ UNCHANGED <<index, serverVars>>

\* cleaned_body = clean_transcript(parsed["body"]) (ingest_data.py:252)
Clean ==
  /\ ingest.phase = "mapped"
  /\ ingest' = [phase            |-> "cleaned",
                transcripts      |-> ingest.transcripts,
                all_documents    |-> ingest.all_documents,
                skipped_speakers |-> ingest.skipped_speakers,
                speaker_name     |-> ingest.speaker_name,
                persona          |-> ingest.persona,
                display_name     |-> ingest.display_name,
                title            |-> ingest.title,
                body             |-> ingest.body,
                cleaned_body     |-> clean_transcript(ingest.body)]
  /\ UNCHANGED <<index, serverVars>>

\* segments = extract_speaker_segments(cleaned_body, display_name)
\* (ingest_data.py:255)
Extract ==
  /\ ingest.phase = "cleaned"
  /\ ingest' = [phase            |-> "extracted",
                transcripts      |-> ingest.transcripts,
                all_documents    |-> ingest.all_documents,
                skipped_speakers |-> ingest.skipped_speakers,
                speaker_name     |-> ingest.speaker_name,
                persona          |-> ingest.persona,
                display_name     |-> ingest.display_name,
                title            |-> ingest.title,
                body             |-> ingest.body,
                cleaned_body     |-> ingest.cleaned_body,
                segments         |->
                  extract_speaker_segments(ingest.cleaned_body, ingest.display_name)]
  /\ UNCHANGED <<index, serverVars>>

\* the chunks of the transcript join the documents to add, and the loop moves
\* on to the next transcript (ingest_data.py:258-276)
Chunk ==
  /\ ingest.phase = "extracted"
  /\ ingest' = [phase            |-> "next",
                transcripts      |-> Tail(ingest.transcripts),
                all_documents    |->
                  ingest.all_documents \o
                    documents_of(chunk_segments(ingest.segments), ingest.speaker_name,
                                 ingest.persona, ingest.display_name, ingest.title),
                skipped_speakers |-> ingest.skipped_speakers]
  /\ UNCHANGED <<index, serverVars>>

\* the documents are added to the collection batch after batch, in order
\* (ingest_data.py:282-303)
AddToCollection ==
  /\ ingest.phase = "next"
  /\ ingest.transcripts = <<>>
  /\ index' = index \o ingest.all_documents
  /\ ingest' = [ingest EXCEPT !.phase = "done"]
  /\ UNCHANGED serverVars

NextIngest ==
  \/ CreateCollection
  \/ Lookup
  \/ Clean
  \/ Extract
  \/ Chunk
  \/ AddToCollection

SpecIngest == InitIngest /\ [][NextIngest]_vars

\* ------------------------------------------------------------------------
\* Derived notions
\* ------------------------------------------------------------------------

\* the state of the execution in the terms of the state machine
ExecState ==
  IF gstatus = "idle" THEN "start"
  ELSE IF gstatus \in {"done", "failed"} THEN gstatus
  ELSE IF task["synthesizer"] # "idle" THEN "reducing"
  ELSE IF \E b \in SwarmSet : task[b] # "idle" THEN "branches_running"
  ELSE "dispatching"

EventNames == [i \in 1..Len(events) |-> events[i].event]

\* the positions in the stream of the events called name
Positions(name) == {i \in 1..Len(events) : events[i].event = name}

\* the positions of the events called name for swarm b
SwarmPositions(name, b) == {i \in Positions(name) : events[i].data.swarm = b}

TypeOK ==
  /\ mode \in {"none", "blocking", "streaming"}
  /\ gstatus \in {"idle", "running", "done", "failed"}
  /\ \A n \in Nodes : task[n] \in {"idle", "pending", "running", "done", "raised", "cancelled"}
  /\ raisedBy \in Nodes \cup {"none"}

\* the node has settled in the execution: it was started and has returned or raised
Settled(n) == runs[n] >= 1 /\ finished[n] = runs[n]

\* the queries the supervisor returned: its buffered update, then the state
SupervisorQueries ==
  IF "supervisor" \in DOMAIN writes THEN writes["supervisor"] ELSE state

\* the supervisor's completion call returned the text of its i-th call
SupervisorReturned(i) == ~calls["supervisor"][i].raised

\* ------------------------------------------------------------------------
\* Properties
\* ------------------------------------------------------------------------

\* C1: join barrier. In blocking and in streaming executions alike, the
\* synthesizer is started only after each of the four swarms has been started
\* and has settled, and it is started at most once per execution.
C1_JoinBarrier ==
  /\ runs["synthesizer"] <= 1
  /\ runs["synthesizer"] >= 1 => \A b \in SwarmSet : runs[b] = 1 /\ Settled(b)
  /\ task["synthesizer"] # "idle" => \A b \in SwarmSet : task[b] = "idle"

C1_Witness ==
  /\ mode = "streaming"
  /\ task["synthesizer"] = "running"
  /\ \A b \in SwarmSet : Settled(b)

\* C2 (as claimed): a swarm whose agent raises does not fail the execution;
\* the run goes on to the synthesizer and ends in done.
C2_BranchFailureNotFatal ==
  \A b \in SwarmSet : task[b] = "raised" => gstatus # "failed"

\* C3: when the supervisor's completion text does not decode, the node does not
\* raise and returns exactly the four query keys, each holding the framing
\* sentence of its swarm followed by the problem.
C3_FallbackQueries ==
  \A i \in 1..Len(calls["supervisor"]) :
    (SupervisorReturned(i) /\ json_loads(calls["supervisor"][i].output) = JSONDecodeError)
      => /\ raisedBy # "supervisor"
         /\ task["supervisor"] # "raised"
         /\ "supervisor" \in DOMAIN writes => DOMAIN writes["supervisor"] = QueryKeys
         /\ \A b \in SwarmSet :
              /\ query_key(b) \in DOMAIN SupervisorQueries
              /\ SupervisorQueries[query_key(b)] = PyStr(Framing[b] \o Text(request))

C3_Witness ==
  /\ Len(calls["supervisor"]) = 1
  /\ SupervisorReturned(1)
  /\ json_loads(calls["supervisor"][1].output) = JSONDecodeError
  /\ "supervisor" \in DOMAIN writes
  /\ strip(request) # <<>>

\* C4 (as claimed): whatever text the supervisor's completion call returned,
\* every swarm agent is invoked with a non-empty string.
C4_QueryNonEmpty ==
  \A b \in DOMAIN agentArgs : agentArgs[b].t = "str" /\ agentArgs[b].v # ""

\* C5 (as claimed): whatever text the supervisor's completion call returned,
\* the supervisor does not fail the run: no 500 response and no error event
\* comes from the supervisor once its completion call has returned.
C5_DispatcherNeverFails ==
  \A i \in 1..Len(calls["supervisor"]) :
    SupervisorReturned(i) => /\ raisedBy # "supervisor"
                             /\ http.status # 500
                             /\ Positions("error") = {}

\* the stream of a streaming execution has ended
StreamEnded == mode = "streaming" /\ gstatus \in {"done", "failed"}

\* C6 (as claimed): every streaming execution emits four swarm_start events,
\* one per swarm, each before the swarm_complete of its swarm.
C6_FourStartsAlways ==
  StreamEnded =>
    /\ Cardinality(Positions("swarm_start")) = Len(SWARM_NAMES)
    /\ \A b \in SwarmSet :
         /\ Cardinality(SwarmPositions("swarm_start", b)) = 1
         /\ \A j \in SwarmPositions("swarm_complete", b) :
              \E i \in SwarmPositions("swarm_start", b) : i < j

\* C6 (amended): a streaming execution emits at most one swarm_start per swarm,
\* every swarm_complete comes strictly after the swarm_start of its swarm, and
\* an execution that ends in done has emitted exactly four swarm_start events,
\* one per swarm.
C6_StartsBeforeCompletes ==
  mode = "streaming" =>
    /\ \A b \in SwarmSet :
         /\ Cardinality(SwarmPositions("swarm_start", b)) <= 1
         /\ \A j \in SwarmPositions("swarm_complete", b) :
              \E i \in SwarmPositions("swarm_start", b) : i < j
    /\ gstatus = "done" =>
         /\ Cardinality(Positions("swarm_start")) = Len(SWARM_NAMES)
         /\ \A b \in SwarmSet : Cardinality(SwarmPositions("swarm_start", b)) = 1

C6_Witness ==
  /\ mode = "streaming"
  /\ gstatus = "done"
  /\ \A b \in SwarmSet : SwarmPositions("swarm_complete", b) # {}

\* C7 (as claimed): in every streaming execution, also one in which a node
\* raises, done is emitted exactly once and is the last event of the stream.
C7_DoneAlwaysLast ==
  StreamEnded => Positions("done") = {Len(events)} /\ events # <<>>

\* C7 (amended): done is emitted at most once and, when emitted, is the last
\* event of the stream; it is emitted exactly when the execution reaches done.
\* The stream of an execution that fails ends with the error event and carries
\* no done.
C7_DoneLastUnlessError ==
  mode = "streaming" =>
    /\ Cardinality(Positions("done")) <= 1
    /\ Positions("done") # {} => events[Len(events)].event = "done"
    /\ Positions("done") # {} <=> gstatus = "done"
    /\ gstatus = "failed" => /\ Positions("done") = {}
                             /\ events[Len(events)].event = "error"

C7_Witness ==
  /\ mode = "streaming"
  /\ gstatus = "done"
  /\ Positions("synthesis_complete") # {}
  /\ events[Len(events)].event = "done"

\* C8: when a node of the graph raises in a streaming execution, exactly one
\* error event is emitted and it is the last event of the stream.
C8_ErrorIsFinal ==
  (mode = "streaming" /\ raisedBy # "none") =>
    /\ Cardinality(Positions("error")) = 1
    /\ Positions("error") = {Len(events)}
    /\ gstatus = "failed"

C8_Witness ==
  /\ mode = "streaming"
  /\ raisedBy \in SwarmSet
  /\ Positions("swarm_complete") # {}
  /\ Positions("error") # {}

\* the synthesis values the synthesizer's completion call produced
ProducedSyntheses ==
  {calls["synthesizer"][i].output :
     i \in {j \in 1..Len(calls["synthesizer"]) : ~calls["synthesizer"][j].raised}}

\* C9: a failure of the synthesizer's completion call is fatal: the blocking
\* endpoint answers 500 and returns no result object, the stream carries an
\* error event and no synthesis_complete; in both modes a synthesis the caller
\* receives is a text the synthesizer's completion call returned.
C9_SynthesisFailureFatal ==
  /\ (\E i \in 1..Len(calls["synthesizer"]) : calls["synthesizer"][i].raised) =>
       /\ gstatus = "failed"
       /\ "synthesis" \notin DOMAIN state
       /\ mode = "blocking" => http.status = 500
       /\ mode = "streaming" => /\ Positions("synthesis_complete") = {}
                                /\ events[Len(events)].event = "error"
  /\ http.status = 200 /\ mode = "blocking" =>
       http.body.synthesis \in ProducedSyntheses
  /\ \A i \in Positions("synthesis_complete") :
       events[i].data.synthesis \in ProducedSyntheses

C9_Witness ==
  /\ Len(calls["synthesizer"]) = 1
  /\ calls["synthesizer"][1].raised
  /\ mode = "blocking"
  /\ http.status = 500

\* swarm b's result is present in the state
ResponsePresent(b) ==
  /\ response_key(b) \in DOMAIN state
  /\ state[response_key(b)] # PyNone

\* the synthesis the synthesizer returned: its buffered update, then the state
ReturnedSynthesis ==
  IF "synthesizer" \in DOMAIN writes THEN writes["synthesizer"]["synthesis"]
  ELSE state["synthesis"]

\* C10: for every subset of absent swarm results, all four included,
\* synthesizer_node issues exactly one completion call and does not raise
\* unless that call does; the call's input holds, for each swarm, the swarm's
\* response text when its result is present and otherwise "No response from "
\* followed by the swarm's configured display name; the synthesis returned is
\* the text the call returned.
C10_SynthesizerInput ==
  /\ finished["synthesizer"] >= 1 => Len(calls["synthesizer"]) = 1
  /\ Len(calls["synthesizer"]) <= 1
  /\ \A i \in 1..Len(calls["synthesizer"]) :
       LET call == calls["synthesizer"][i]
       IN /\ \A b \in SwarmSet :
               call.input[b] = IF ResponsePresent(b) THEN state[response_key(b)].response
                               ELSE "No response from " \o SWARMS[b].display_name
          /\ ~call.raised => /\ raisedBy = "none"
                             /\ task["synthesizer"] # "raised"
                             /\ ReturnedSynthesis = call.output

C10_Witness ==
  /\ \A b \in SwarmSet : ~ResponsePresent(b)
  /\ Len(calls["synthesizer"]) = 1
  /\ ~calls["synthesizer"][1].raised
  /\ gstatus = "done"

\* the fields of CouncilState (agent_graph.py:24-38)
StateFields == {"problem", "synthesis"} \cup QueryKeys \cup ResponseKeys

\* C11: every field of the execution state is written at most once in an
\* execution: a field that holds a value keeps that value in every later step
\* (no overwrite, no reset to absent), and no node runs twice.
C11_WriteOnce ==
  [][/\ \A k \in DOMAIN state : k \in DOMAIN state' /\ state'[k] = state[k]
     /\ DOMAIN state' \subseteq StateFields
     /\ \A n \in Nodes : runs'[n] <= 1]_vars

C11_Witness ==
  /\ \A b \in SwarmSet : response_key(b) \in DOMAIN state
  /\ "synthesis" \in DOMAIN state
  /\ gstatus = "done"

\* swarm b has returned a result in this execution
HasResult(b) == (b \in DOMAIN writes) \/ (response_key(b) \in DOMAIN state)

\* the result swarm b returned: its buffered update, then the state
BranchResult(b) ==
  IF b \in DOMAIN writes THEN writes[b][response_key(b)] ELSE state[response_key(b)]

\* C12: when the retrieval of a swarm returns no passage, its completion call
\* is still issued, with the literal "No relevant context found from this
\* collective." as context, and the swarm returns a result (not None) holding
\* an empty sources list, the text of that completion and its display name.
C12_EmptyRetrieval ==
  \A b \in SwarmSet :
    collection_query(index, b) = <<>> =>
      /\ \A i \in 1..Len(calls[b]) :
           calls[b][i].input.context = "No relevant context found from this collective."
      /\ (task[b] = "done" \/ HasResult(b)) =>
           /\ Len(calls[b]) = 1
           /\ ~calls[b][1].raised
           /\ HasResult(b)
           /\ BranchResult(b) # PyNone
           /\ BranchResult(b).sources = <<>>
           /\ BranchResult(b).response = calls[b][1].output
           /\ BranchResult(b).agent = SWARMS[b].display_name

C12_Witness ==
  /\ collection_query(index, "founder_swarm") = <<>>
  /\ response_key("founder_swarm") \in DOMAIN state
  /\ state[response_key("founder_swarm")].sources = <<>>
  /\ gstatus = "done"

\* C13: on both endpoints a request whose problem is empty or only whitespace
\* is answered with status 400 before the graph is invoked: no node is started,
\* no completion call is made, the state is never created and no event is sent.
C13_EmptyProblemRejected ==
  (mode # "none" /\ \A i \in 1..Len(request) : request[i] = " ") =>
    /\ http.status = 400
    /\ gstatus = "idle"
    /\ state = NoMap
    /\ \A n \in Nodes : runs[n] = 0 /\ task[n] = "idle" /\ calls[n] = <<>>
    /\ agentArgs = NoMap
    /\ events = <<>>

C13_Witness ==
  /\ mode = "streaming"
  /\ request = <<" ">>
  /\ http.status = 400

\* the text the only completion call of node n returned
CompletionOf(n) == calls[n][1].output

\* C14: the blocking call returns only once the execution is done, and the
\* object it returns echoes the problem of the request, holds under each of
\* the four swarm keys that swarm's own result (not None: the text of that
\* swarm's completion, one source per retrieved passage, that swarm's display
\* name) and holds as synthesis the text the synthesizer's completion returned.
C14_BlockingResult ==
  (mode = "blocking" /\ http.status = 200) =>
    /\ gstatus = "done"
    /\ \A n \in Nodes : runs[n] = 1 /\ finished[n] = 1 /\ Len(calls[n]) = 1 /\ ~calls[n][1].raised
    /\ http.body.problem = request
    /\ \A b \in SwarmSet :
         /\ http.body[b] # PyNone
         /\ http.body[b].response = CompletionOf(b)
         /\ http.body[b].agent = SWARMS[b].display_name
         /\ Len(http.body[b].sources) = Len(collection_query(index, b))
    /\ http.body.synthesis = CompletionOf("synthesizer")

C14_Witness ==
  /\ mode = "blocking"
  /\ http.status = 200
  /\ \A b \in SwarmSet : http.body[b] # PyNone

\* C15: two executions of the graph, served together or one after another,
\* with the same problem or not, share no state: a step of one leaves the
\* record of the other (its state, its outcome) as it was, a failure included;
\* an execution starts on a state that holds its own problem and nothing
\* else; and what it holds and returns comes from its own request and its own
\* nodes' calls.
C15_Isolation ==
  [][/\ current' = current => other' = other
     /\ (current' = current /\ gstatus = "idle" /\ gstatus' = "running")
          => state' = [k \in {"problem"} |-> request']
     /\ gstatus' # "idle" =>
          /\ state'["problem"] = request'
          /\ \A k \in DOMAIN state' \ {"problem"} :
                \E n \in Nodes : calls'[n] # <<>> /\ ~calls'[n][1].raised
          /\ \A i \in DOMAIN calls'["supervisor"] :
                calls'["supervisor"][i].input = request'
          /\ \A b \in SwarmSet : response_key(b) \in DOMAIN state' =>
                state'[response_key(b)]["response"] = calls'[b][1].output
          /\ gstatus' = "failed" => calls'[raisedBy'] # <<>> /\ calls'[raisedBy'][1].raised]_vars

\* the second execution has started while the first one holds responses, and
\* the first has failed since
C15_Witness ==
  /\ other.gstatus = "failed"
  /\ \E b \in SwarmSet : response_key(b) \in DOMAIN other.state
  /\ gstatus = "running"
  /\ state = [k \in {"problem"} |-> request]

\* the streaming execution has ended, after a blocking execution of the same
\* problem whose external calls did the same
SameRunStreamed ==
  /\ current = 2
  /\ mode = "streaming"
  /\ other.mode = "blocking"
  /\ request = other.request
  /\ http.status = 400 \/ gstatus \in {"done", "failed"}
  /\ Outcomes(calls) = Outcomes(other.calls)

\* C16: for the same problem and the same outcomes of the external calls, the
\* streaming execution has called the same nodes with the same inputs as the
\* blocking one and has ended as it did, on the same state; when they end in
\* done, there is one swarm_complete per swarm and its response is the branch
\* result the blocking call returned, and the one synthesis_complete carries
\* the blocking call's synthesis.
C16_StreamingSameAsBlocking ==
  SameRunStreamed =>
    /\ calls = other.calls
    /\ agentArgs = other.agentArgs
    /\ gstatus = other.gstatus
    /\ raisedBy = other.raisedBy
    /\ state = other.state
    /\ (http.status = 400) <=> (other.http.status = 400)
    /\ gstatus = "done" =>
         /\ other.http.status = 200
         /\ \A b \in SwarmSet :
              /\ Cardinality(SwarmPositions("swarm_complete", b)) = 1
              /\ \A i \in SwarmPositions("swarm_complete", b) :
                   events[i].data.response = other.http.body[b]
         /\ Cardinality(Positions("synthesis_complete")) = 1
         /\ \A i \in Positions("synthesis_complete") :
              events[i].data.synthesis = other.http.body.synthesis

C16_Witness ==
  /\ SameRunStreamed
  /\ gstatus = "done"
  /\ other.http.status = 200
  /\ \A b \in SwarmSet : SwarmPositions("swarm_complete", b) # {}

\* the order of the states of an execution, and the entries into failed
StateOrder ==
  {<<"start", "dispatching">>, <<"dispatching", "branches_running">>,
   <<"branches_running", "reducing">>, <<"reducing", "done">>}
    \cup {<<s, "failed">> : s \in {"start", "dispatching", "branches_running", "reducing"}}

\* C17: an execution changes state along start, dispatching, branches_running,
\* reducing, done only, or from a non-terminal state to failed; no node starts
\* twice, a swarm starts only after the supervisor has returned and the
\* synthesizer only after the four swarms have; an execution in done has run
\* every node once; and in done and failed nothing changes any more. (No node
\* runs in start, so the entries into failed are from the three states after.)
C17_StateOrder ==
  [][/\ ExecState' # ExecState => <<ExecState, ExecState'>> \in StateOrder
     /\ \A n \in Nodes : runs'[n] <= 1
     /\ \A b \in SwarmSet : runs'[b] > runs[b] =>
          /\ runs["supervisor"] = 1 /\ finished["supervisor"] = 1
          /\ task["supervisor"] = "idle"
          /\ ExecState' = "branches_running"
     /\ runs'["synthesizer"] > runs["synthesizer"] =>
          /\ \A b \in SwarmSet : runs[b] = 1 /\ finished[b] = 1 /\ task[b] = "idle"
          /\ ExecState' = "reducing"
     /\ runs'["supervisor"] > runs["supervisor"] => ExecState' = "dispatching"
     /\ ExecState' = "done" => \A n \in Nodes : runs'[n] = 1 /\ finished'[n] = 1
     /\ ExecState' = "failed" => raisedBy' \in Nodes /\ task'[raisedBy'] = "raised"
     /\ ExecState \in {"done", "failed"} => UNCHANGED vars]_vars

\* an execution has gone through every state up to reducing and failed there
C17_Witness ==
  /\ ExecState = "failed"
  /\ raisedBy = "synthesizer"
  /\ \A b \in SwarmSet : runs[b] = 1 /\ finished[b] = 1

\* the request has been answered for good: rejected, or returned or raised by
\* the blocking call, or a stream whose last event is done or error
Terminated ==
  \/ http.status = 400
  \/ mode = "blocking" /\ http.status \in {200, 500} /\ gstatus \in {"done", "failed"}
  \/ /\ mode = "streaming"
     /\ gstatus \in {"done", "failed"}
     /\ events # <<>>
     /\ events[Len(events)].event = (IF gstatus = "done" THEN "done" ELSE "error")

\* C18: when every external call returns or raises, a request that was received
\* is eventually answered for good: the blocking call returns (done) or raises
\* (failed), and the stream ends with done or error.
C18_Terminates == (mode # "none") ~> Terminated

\* the stream of an execution that went through all its nodes has ended
C18_Witness ==
  /\ Terminated
  /\ mode = "streaming"
  /\ gstatus = "done"
  /\ \A n \in Nodes : runs[n] = 1

\* C19: in a streaming execution that ends with done there is exactly one
\* synthesis_complete; it comes after the swarm_complete of each of the four
\* swarms and before done, which is the last event. (The events of different
\* swarms come in any order: the witness is one stream in which the swarms
\* start in one order and complete in another.)
C19_SynthesisAfterSwarms ==
  (mode = "streaming" /\ gstatus = "done") =>
    /\ Cardinality(Positions("synthesis_complete")) = 1
    /\ Cardinality(Positions("done")) = 1
    /\ \A s \in Positions("synthesis_complete") :
         /\ \A b \in SwarmSet :
              /\ SwarmPositions("swarm_complete", b) # {}
              /\ \A i \in SwarmPositions("swarm_complete", b) : i < s
         /\ \A e \in Positions("done") : s < e /\ e = Len(events)

\* a stream ended with done in which the engineering swarm started first and
\* completed last, and the founder swarm started last, after the product
\* swarm had completed
C19_Witness ==
  /\ mode = "streaming"
  /\ gstatus = "done"
  /\ events[1].event = "swarm_start" /\ events[1].data.swarm = "engineering_swarm"
  /\ \E i \in SwarmPositions("swarm_start", "founder_swarm") :
       /\ \A b \in SwarmSet : \A j \in SwarmPositions("swarm_start", b) : j <= i
       /\ \E c \in SwarmPositions("swarm_complete", "product_swarm") : c < i
  /\ \E k \in SwarmPositions("swarm_complete", "engineering_swarm") :
       \A b \in SwarmSet : \A j \in SwarmPositions("swarm_complete", b) : j <= k
  /\ events[Len(events)].event = "done"

\* C20: the four swarms are scheduled together, by the step that ends the
\* supervisor's: while the execution runs, either none of them is scheduled or
\* all four are, the supervisor having returned; a swarm that is scheduled can
\* start whatever the other swarms are doing (none has to have returned); so
\* the four can be in progress at once (the witness).
C20_BranchesTogether ==
  gstatus = "running" =>
    /\ \/ \A b \in SwarmSet : task[b] = "idle"
       \/ /\ \A b \in SwarmSet : task[b] \in {"pending", "running", "done"}
          /\ finished["supervisor"] = 1
          /\ task["supervisor"] = "idle"
    /\ \A b \in SwarmSet : task[b] = "pending" => ENABLED NodeStart(b)
    /\ \A b \in SwarmSet : runs[b] = 1 /\ (\E c \in SwarmSet : runs[c] = 0) =>
         \A c \in SwarmSet : runs[c] = 0 => task[c] = "pending"

\* the four swarms are in progress at once
C20_Witness ==
  /\ gstatus = "running"
  /\ \A b \in SwarmSet : task[b] = "running" /\ finished[b] = 0

\* C21: a swarm_complete event is in the stream for a swarm only if the swarm's
\* agent made its completion call and returned, and its response is the dict
\* the agent returned: the completion's text, the sources of what was
\* retrieved and the display name, never the default (empty) object; a swarm
\* whose node raised has no swarm_complete event, and no result in the buffer
\* of updates or in the state.
C21_NoFabricatedResult ==
  \A b \in SwarmSet :
    /\ \A i \in SwarmPositions("swarm_complete", b) :
         /\ Len(calls[b]) = 1
         /\ ~calls[b][1].raised
         /\ task[b] # "raised"
         /\ events[i].data.response # NoMap
         /\ events[i].data.response =
              agent_result(b, SWARMS[b].display_name, index, calls[b][1].output)
    /\ task[b] = "raised" =>
         /\ SwarmPositions("swarm_complete", b) = {}
         /\ b \notin DOMAIN writes
         /\ response_key(b) \notin DOMAIN state

\* one swarm has raised after another has completed: the stream holds the
\* swarm_complete of the second and none of the first
C21_Witness ==
  /\ mode = "streaming"
  /\ task["product_swarm"] = "raised"
  /\ SwarmPositions("swarm_complete", "founder_swarm") # {}
  /\ SwarmPositions("swarm_complete", "product_swarm") = {}

\* the entries of the index tagged with swarm b, in the order of the index
TaggedWith(b) == SelectSeq(index, LAMBDA e : e.persona = b)

\* C22: a swarm node hands its agent the value the supervisor wrote under the
\* swarm's own query key; the agent's completion call gets that query and the
\* context made of the index entries tagged with the swarm's own name, and of
\* no other entry; the result is written under the swarm's own response key
\* and under no other key, and its agent field is the swarm's display name.
C22_OwnQueryOwnFilter ==
  \A b \in SwarmSet :
    /\ b \in DOMAIN agentArgs =>
         /\ query_key(b) \in DOMAIN state
         /\ agentArgs[b] = state[query_key(b)]
         /\ Len(calls["supervisor"]) = 1 /\ SupervisorReturned(1)
    /\ \A i \in DOMAIN calls[b] :
         /\ calls[b][i].input.query = state[query_key(b)]
         /\ calls[b][i].input.context = context_of(TaggedWith(b))
    /\ \A e \in {collection_query(index, b)[i] : i \in DOMAIN collection_query(index, b)} :
         e.persona = b
    /\ b \in DOMAIN writes =>
         /\ DOMAIN writes[b] = {response_key(b)}
         /\ writes[b][response_key(b)].agent = SWARMS[b].display_name
         /\ Len(writes[b][response_key(b)].sources) = Len(TaggedWith(b))
    /\ response_key(b) \in DOMAIN state =>
         /\ state[response_key(b)].agent = SWARMS[b].display_name
         /\ state[response_key(b)].response = calls[b][1].output

\* the four swarms have returned on tailored queries that differ from swarm to
\* swarm, over an index holding a passage for each
C22_Witness ==
  /\ index = PopulatedIndex
  /\ \A b \in SwarmSet :
       /\ response_key(b) \in DOMAIN state
       /\ agentArgs[b] = PyStr(TailoredQuery(b))
  /\ \A b, c \in SwarmSet : b # c => agentArgs[b] # agentArgs[c]

\* the fields a node writes (agent_graph.py:78-83, 104, 127)
Owned(n) ==
  IF n = "supervisor" THEN QueryKeys
  ELSE IF n = "synthesizer" THEN {"synthesis"}
  ELSE {response_key(n)}

\* C23: the update a node returns holds the node's own fields and no other:
\* the four query fields for the supervisor, the swarm's own response field
\* for a swarm, the synthesis for the synthesizer; and a field of the state
\* changes, or appears, only by taking the value the node that owns it has
\* returned: the problem, the queries, the other swarms' responses and the
\* synthesis are as they were after a swarm's update is applied.
C23_Frame ==
  [][/\ \A n \in DOMAIN writes' : DOMAIN writes'[n] = Owned(n)
     /\ \A k \in DOMAIN state' :
          (k \notin DOMAIN state \/ state'[k] # state[k]) =>
            \/ k = "problem" /\ DOMAIN state' = {"problem"}
            \/ \E n \in DOMAIN writes : k \in Owned(n) /\ state'[k] = writes[n][k]
     /\ (\A b \in SwarmSet : b \in DOMAIN writes) =>
          \A k \in DOMAIN state : k \in DOMAIN state' /\ state'[k] = state[k]]_vars

\* the four swarms' updates have been applied to a state that held the problem
\* and the four queries, and the synthesizer's update after them
C23_Witness ==
  /\ gstatus = "done"
  /\ DOMAIN state = StateFields
  /\ state["problem"] = request

\* the passages a query of swarm b retrieves: the first n_results of its own
Retrieved(b) ==
  SubSeq(TaggedWith(b), 1, IF Len(TaggedWith(b)) < NResults THEN Len(TaggedWith(b)) ELSE NResults)

\* a passage as it stands in the context: "[Speaker - Timestamp] passage text"
Rendered(e) ==
  "[" \o display_speaker(e.meta.speaker_name) \o " - " \o e.meta.timestamp \o "] "
      \o Text(e.document)

\* the rendered passages from the i-th on, two line feeds between them
RECURSIVE ContextFrom(_, _)
ContextFrom(es, i) ==
  IF i = Len(es) THEN Rendered(es[i])
  ELSE Rendered(es[i]) \o "\n\n" \o ContextFrom(es, i + 1)

\* C24: the sources of a swarm's result are as many as the passages retrieved
\* (at most 8) and in their order; the text of the i-th source is the i-th
\* passage itself when it has at most 200 characters, and its first 200
\* characters followed by "..." when it has more; the context of the
\* completion call is the passages in the same order, each as
\* "[Speaker - Timestamp] passage text".
C24_SourcesAndContext ==
  \A b \in SwarmSet :
    /\ Len(Retrieved(b)) <= NResults
    /\ HasResult(b) =>
         LET sources == BranchResult(b).sources
         IN /\ Len(sources) = Len(Retrieved(b))
            /\ \A i \in 1..Len(sources) :
                 LET doc == Retrieved(b)[i].document
                 IN /\ Len(doc) <= 200 =>
                         /\ sources[i].text = Text(doc)
                         /\ Len(sources[i].text) = Len(doc)
                    /\ Len(doc) > 200 =>
                         /\ sources[i].text = Text(SubSeq(doc, 1, 200)) \o "..."
                         /\ Len(sources[i].text) = 203
                    /\ sources[i].timestamp = Retrieved(b)[i].meta.timestamp
    /\ \A i \in DOMAIN calls[b] :
         Retrieved(b) # <<>> => calls[b][i].input.context = ContextFrom(Retrieved(b), 1)

\* the founder swarm has returned over the index whose passages have 199, 200
\* and 201 characters: the third source alone is cut
C24_Witness ==
  /\ Len(TaggedWith("founder_swarm")) = Len(PassageLens)
  /\ response_key("founder_swarm") \in DOMAIN state
  /\ Len(state[response_key("founder_swarm")].sources[2].text) = PreviewLen
  /\ Len(state[response_key("founder_swarm")].sources[3].text) = PreviewLen + 3

\* the names of the events of the stream and the keys of their data
\* (agent_graph.py:205-233, main.py:119-123)
Vocabulary ==
  [swarm_start        |-> {"swarm", "display_name"},
   swarm_complete     |-> {"swarm", "display_name", "response"},
   synthesis_complete |-> {"synthesis"},
   done               |-> {},
   error              |-> {"error"}]

\* C25: every event of the stream has one of the five names swarm_start,
\* swarm_complete, synthesis_complete, done, error, and the data keys of its
\* name; a swarm_start or swarm_complete names one of the four swarms and
\* carries that swarm's display name; the supervisor has no event: the stream
\* is empty until the first swarm starts, and holds one event per swarm start,
\* per swarm return, for the synthesizer's return and for the end, no more.
C25_EventVocabulary ==
  /\ mode # "streaming" => events = <<>>
  /\ \A i \in 1..Len(events) :
       /\ events[i].event \in DOMAIN Vocabulary
       /\ DOMAIN events[i].data = Vocabulary[events[i].event]
       /\ events[i].event \in {"swarm_start", "swarm_complete"} =>
            /\ events[i].data.swarm \in SwarmSet
            /\ events[i].data.display_name = SWARMS[events[i].data.swarm].display_name
  /\ (\A b \in SwarmSet : runs[b] = 0) /\ raisedBy = "none" => events = <<>>
  /\ mode = "streaming" =>
       Len(events) = Cardinality({b \in SwarmSet : runs[b] = 1})
                       + Cardinality({b \in SwarmSet : finished[b] = 1 /\ task[b] # "raised"})
                       + (IF finished["synthesizer"] = 1 /\ task["synthesizer"] # "raised"
                            THEN 1 ELSE 0)
                       + (IF gstatus \in {"done", "failed"} THEN 1 ELSE 0)

\* the supervisor has run and returned in a streaming execution, and the
\* stream is still empty
C25_Witness ==
  /\ mode = "streaming"
  /\ finished["supervisor"] = 1
  /\ \E b \in SwarmSet : task[b] = "pending"
  /\ events = <<>>

\* the two-state scan over the lines from line i on, a block being closed by
\* any line that opens a speaker's turn
RECURSIVE scan_lines(_, _, _, _)
scan_lines(lines, i, in_block, kept) ==
  IF i > Len(lines) THEN kept
  ELSE IF Contains(SponsorPhrase, lines[i])
    THEN scan_lines(lines, i + 1, TRUE, kept)
  ELSE LET still == in_block /\ ~header_match(lines[i]).matched
       IN scan_lines(lines, i + 1, still,
                     IF still THEN kept ELSE Append(kept, lines[i]))

\* the transcript at hand has been cleaned
Cleaned == ingest.phase \in {"cleaned", "extracted"}

\* C26 (as claimed): clean_transcript drops every line holding the sponsor
\* phrase and every line after it up to the first line that opens a speaker's
\* turn, which it keeps; the lines outside a block are kept unchanged and in
\* order.
C26_SponsorBlocksClosedByTurns ==
  Cleaned =>
    ingest.cleaned_body =
      JoinLines(scan_lines(split(ingest.body, "\n", <<>>), 1, FALSE, <<>>))

\* the segments of the transcript at hand have been extracted
Extracted == ingest.phase = "extracted"

\* the lines extract_speaker_segments was given
CleanedLines == split(ingest.cleaned_body, "\n", <<>>)

\* line i opens a speaker's turn
IsHeader(lines, i) == header_match(lines[i]).matched

\* the last line of the turn that line i opens: the line before the next turn
\* header, or the last line of the transcript
TurnEnd(lines, i) ==
  IF \E j \in (i + 1)..Len(lines) : IsHeader(lines, j)
    THEN (CHOOSE j \in (i + 1)..Len(lines) :
            IsHeader(lines, j) /\ \A k \in (i + 1)..(j - 1) : ~IsHeader(lines, k)) - 1
  ELSE Len(lines)

\* the lines that open a turn of the target speaker, in transcript order
TargetTurns(lines, target_speaker) ==
  SelectSeq([i \in 1..Len(lines) |-> i],
            LAMBDA i : /\ IsHeader(lines, i)
                       /\ same_speaker(header_match(lines[i]).speaker, target_speaker))

\* the lines of the turn that line i opens, as they stand in the transcript,
\* the header without the speaker's name and timestamp
RawTurn(lines, i) ==
  <<header_match(lines[i]).rest>> \o SubSeq(lines, i + 1, TurnEnd(lines, i))

\* the speech of the turn that line i opens: the rest of the header line, then
\* the following lines without their mid-speech timestamps
SpeechOfTurn(lines, i) ==
  <<header_match(lines[i]).rest>>
    \o [j \in 1..(TurnEnd(lines, i) - i) |-> speech_of(lines[i + j])]

\* C27 (as claimed): each segment's text is exactly the lines of its turn, from
\* the turn header up to the next turn header.
C27_TextIsTheLines ==
  Extracted =>
    LET lines == CleanedLines
        turns == TargetTurns(lines, ingest.display_name)
    IN \A k \in 1..Len(ingest.segments) :
         k <= Len(turns)
           => ingest.segments[k].text = JoinLines(RawTurn(lines, turns[k]))

\* C27 (amended): extract_speaker_segments returns, in transcript order, one
\* segment for each turn whose normalized speaker contains or is contained in
\* the normalized target name, the last turn of the transcript included; the
\* segment carries the speaker and the timestamp of the turn header, and its
\* text is the rest of the header line followed by the lines up to the next
\* turn header, each without its mid-speech timestamp, joined by newlines and
\* stripped. Nothing else is returned: no line before the first header and no
\* turn of another speaker.
C27_SegmentsOfTargetTurns ==
  Extracted =>
    LET lines == CleanedLines
        turns == TargetTurns(lines, ingest.display_name)
    IN /\ Len(ingest.segments) = Len(turns)
       /\ \A k \in 1..Len(turns) :
            /\ ingest.segments[k].speaker = header_match(lines[turns[k]]).speaker
            /\ ingest.segments[k].timestamp = header_match(lines[turns[k]]).timestamp
            /\ ingest.segments[k].text =
                 strip(JoinLines(SpeechOfTurn(lines, turns[k])))

\* two turns of the target speaker have been extracted, the second one being the
\* last line of the transcript and under the speaker's first name only, the
\* first one holding a mid-speech timestamp
C27_Witness ==
  /\ Extracted
  /\ Len(ingest.segments) = 2
  /\ ingest.segments[2].speaker # ingest.segments[1].speaker
  /\ LET lines == CleanedLines
     IN /\ IsHeader(lines, Len(lines))
        /\ \E j \in 1..Len(lines) : StampAt(lines[j], 1)

\* the swarms that list the speaker
ListedIn(speaker_name) ==
  {p \in DOMAIN PERSONA_MAP :
     \E i \in 1..Len(PERSONA_MAP[p]) : PERSONA_MAP[p][i] = speaker_name}

\* the speakers PERSONA_MAP lists
Listed ==
  UNION {{PERSONA_MAP[p][i] : i \in 1..Len(PERSONA_MAP[p])} : p \in DOMAIN PERSONA_MAP}

\* the orders in which the swarms of PERSONA_MAP can be iterated
Orders ==
  {o \in [1..Len(PersonaOrder) -> DOMAIN PERSONA_MAP] :
     \A i, j \in 1..Len(PersonaOrder) : i # j => o[i] # o[j]}

\* the documents ingestion has collected or added to the collection
Ingested ==
  IF ingest.phase \in {"none", "start"} THEN {}
  ELSE {index[i] : i \in 1..Len(index)}
         \cup {ingest.all_documents[i] : i \in 1..Len(ingest.all_documents)}

\* no speaker is listed in two swarms
ListedOnce == \A s \in Listed : Cardinality(ListedIn(s)) = 1

\* whatever the order in which the swarms are iterated, get_persona_for_speaker
\* returns the same persona, and none exactly for the speakers no swarm lists
OrderIndependent ==
  \A s \in Listed \cup {Text(t) : t \in Speakers} : \A o \in Orders :
    /\ persona_in(o, s) = persona_in(PersonaOrder, s)
    /\ persona_in(o, s) = NoPersona <=> ListedIn(s) = {}

\* C28: every chunk ingestion indexes is tagged with exactly one swarm. No
\* speaker is listed in two swarms, so get_persona_for_speaker returns the same
\* persona whatever the order in which the map is iterated; a transcript taken
\* up has a listed speaker and the persona of the swarm listing it, its chunks
\* carry that persona, and a speaker listed in no swarm is skipped and has no
\* chunk in the index.
C28_OneSwarmPerChunk ==
  /\ ListedOnce
  /\ OrderIndependent
  /\ ingest.phase \in {"mapped", "cleaned", "extracted"}
       => ListedIn(Text(ingest.speaker_name)) = {ingest.persona}
  /\ \A e \in Ingested : ListedIn(Text(e.meta.speaker_name)) = {e.persona}
  /\ ingest.phase \notin {"none", "start"}
       => \A s \in ingest.skipped_speakers :
            /\ ListedIn(Text(s)) = {}
            /\ \A e \in Ingested : e.meta.speaker_name # s

\* ingestion has ended having skipped a transcript whose speaker no swarm lists
\* and indexed a chunk of a listed speaker
C28_Witness ==
  /\ ingest.phase = "done"
  /\ ingest.skipped_speakers # {}
  /\ index # <<>>

====
